---- MODULE Spec2Model ----
(***************************************************************************)
(* Verification model of the CosmoDB mobile wire-client engine.            *)
(*                                                                         *)
(* The module holds one state machine per component, each with its own    *)
(* specification over the shared variables:                                *)
(*   SpecTcp / SpecTcpFair  the byte-stream transport (TcpClient)          *)
(*   SpecPool               the connection pool (ConnectionPool)           *)
(*   SpecUi                 the query screen and the connection store      *)
(*   SpecDrv                the drivers' connect()/query() control flow    *)
(*   SpecFrame              the drivers' frame reassembly loops            *)
(***************************************************************************)
EXTENDS Integers, Sequences, FiniteSets, TLC

(***************************************************************************)
(* Bounds of the model.                                                    *)
(***************************************************************************)
\* bytes all data events of one run deliver in total
MaxStream == 2
\* receive() calls of one run
MaxReq == 2
\* connect() calls on one TcpClient
MaxConnects == 1
\* PoolConfig.maxSize, idleTimeoutMs and acquireTimeoutMs of the modelled pool,
\* the latter two in ticks of the model's clock
PoolMaxSize == 1
IdleTimeout == 1
AcquireTimeout == 1
\* driver instances alive at one time
MaxConns == 2
\* statements one run of the query screen sends
MaxStatements == 4
\* query() calls made on one driver instance
MaxQueries == 2
\* frames in one byte stream from the server, and bytes in a frame's payload
MaxFrames == 2
MaxPayload == 1
\* characters in the nonce of a server-first message
MaxNonce == 2
\* messages one run of Postgres' authenticate() takes off its buffer
MaxAuthMessages == 3
\* characters in the message text of a server's error report
MaxText == 2
\* rows in one MySQL result set
MaxRows == 2
\* the largest sequence id of a packet from the MySQL server
MaxSeq == 2
\* properties a caller gives a BSON document
MaxFields == 2
\* length-encoded integers in one buffer
MaxInts == 2

\* sockets one driver instance opens, and queries made on it
MaxSockets == 2
MaxSessQueries == 2

\* driver instances the connection store makes
MaxInstances == 3

VARIABLES
  \* ---- TcpClient (src/unnamed/part_000) ----
  socket,        \* this.socket: "null", or the phase of the socket object it
                 \* refers to: "connecting", "open", "ended" (close was emitted)
  connected,     \* this.connected
  tlsSocket,     \* TRUE when this.socket was made by connectTLS
  buffer,        \* this.buffer, a sequence of bytes
  messageQueue,  \* this.messageQueue, the pending receive requests (ids)
  reqs,          \* history: one record per receive() call made so far
  connectRes,    \* the promise of the latest connect() call
  closing,       \* destroyed sockets whose "close" event is still to come
  streamPos,     \* bytes the socket's data events have delivered so far
  nConnects,     \* connect() calls made so far
  aborted,       \* history: requests that were pending at a disconnect()
  rx,            \* history: the stream position at the last disconnect(), and
                 \* the bytes receive() calls have returned since, in the
                 \* order in which they were returned
  \* ---- ConnectionPool (src/unnamed/part_001) ----
  pools,         \* this.pools: pool key -> the array it maps to (0: no entry)
  arrays,        \* the PooledConnection[] arrays, by identity
  conns,         \* the driver instances created so far, with their
                 \* PooledConnection fields
  callers,       \* the callers of acquire/release and where each stands
  \* ---- QueryScreen and useConnectionStore (src/unnamed/part_005) ----
  ui,            \* the screen's React state and refs
  settings,      \* useSettingsStore().settings
  tasks,         \* the driver query() calls in flight, each with the handler
                 \* that awaits it
  \* ---- PostgresConnection / MySQLConnection / MongoDBConnection ----
  drv,           \* one driver instance: its config, its ConnectionState, where
                 \* its connect()/query() call stands, and how the last call ended
  \* ---- the drivers' frame reassembly ----
  frm,           \* the byte stream a server sends, how much of it the transport
                 \* has handed over, the driver's buffer and the frames it parsed
  shutdown,      \* ConnectionPool.destroyAll: how far it is, and what it left behind
  scram,         \* one SCRAM handshake of a driver's authenticate()
  rset,          \* one MySQL query(): the result set the server sends and what
                 \* query() has made of it
  bson,          \* the BSON codec: a document, its encoding, the decoding of that
  lenenc,        \* length-encoded integers: a server's bytes and what a decoder read
  store,         \* the snippet store: its mutex, its operations, the stored list
  sess,          \* a PostgresConnection over its connects, queries and disconnects
  cstore         \* useConnectionStore: activeConnections and the calls in flight


tcpVars == <<socket, connected, tlsSocket, buffer, messageQueue, reqs,
             connectRes, closing, streamPos, nConnects, aborted, rx>>

poolVars == <<pools, arrays, conns, callers>>

uiVars == <<ui, settings, tasks>>

vars == <<tcpVars, poolVars, uiVars, drv, frm, shutdown, scram, rset, bson, lenenc, store, sess, cstore>>

\* What the actions of one component leave alone.
nonTcpVars == <<poolVars, uiVars, drv, frm, shutdown, scram, rset, bson, lenenc, store, sess, cstore>>
nonPoolVars == <<tcpVars, uiVars, drv, frm, shutdown, scram, rset, bson, lenenc, store, sess, cstore>>
nonUiVars == <<poolVars, drv, frm, shutdown, scram, rset, bson, lenenc, store, sess, cstore>>
nonDrvVars == <<buffer, messageQueue, reqs, connectRes, closing, streamPos,
                nConnects, aborted, rx, poolVars, uiVars, frm, shutdown, scram, rset, bson, lenenc, store, sess, cstore>>
nonFrameVars == <<tcpVars, poolVars, uiVars, drv, shutdown, scram, rset, bson, lenenc, store, sess, cstore>>

(***************************************************************************)
(* TcpClient                                                               *)
(***************************************************************************)

\* The values config.ssl / options.tls can take: a boolean or a TlsOptions
\* object, of which only `enabled` decides the kind of socket.
TlsValues == {"false", "true", "objEnabled", "objDisabled"}

sslConfigToTlsOptions(ssl) == ssl

\* part_000:94  const useTls = typeof tls === "boolean" ? tls : tls.enabled
UseTls(tls) == tls \in {"true", "objEnabled"}

TcpInit ==
  /\ socket = "null"
  /\ connected = FALSE
  /\ tlsSocket = FALSE
  /\ buffer = <<>>
  /\ messageQueue = <<>>
  /\ reqs = <<>>
  /\ connectRes = "none"
  /\ closing = 0
  /\ streamPos = 0
  /\ nConnects = 0
  /\ aborted = {}
  /\ rx = [start |-> 0, got |-> <<>>]

\* Settling a promise that is already settled has no effect.
Settle(p, outcome) == IF p = "pending" THEN outcome ELSE p

\* (mutant) a rejectPendingMessages that stops after the first request
RejectedAll_HeadOnly(rs, q, error) ==
  [i \in 1..Len(rs) |->
     IF q # <<>> /\ q[1] = i
       THEN [rs[i] EXCEPT !.st = "rejected", !.err = error]
       ELSE rs[i]]

\* rejectPendingMessages(error): every queued request is rejected, in order.
RejectedAll(rs, q, error) ==
  [i \in 1..Len(rs) |->
     IF \E k \in 1..Len(q) : q[k] = i
       THEN [rs[i] EXCEPT !.st = "rejected", !.err = error]
       ELSE rs[i]]

\* (mutant) a processBuffer that hands the buffer over and keeps its bytes
ProcessBuffer_KeepsBytes(buf, q, rs) ==
  IF Len(q) > 0 /\ Len(buf) > 0
    THEN [buffer |-> buf, queue |-> Tail(q),
          reqs |-> [rs EXCEPT ![Head(q)].st = "resolved",
                              ![Head(q)].data = buf]]
    ELSE [buffer |-> buf, queue |-> q, reqs |-> rs]

\* processBuffer(): while a request is queued and bytes are buffered, the first
\* request gets the whole buffer; one round empties the buffer, so the loop
\* runs at most once.
ProcessBuffer(buf, q, rs) ==
  IF Len(q) > 0 /\ Len(buf) > 0
    THEN [buffer |-> <<>>, queue |-> Tail(q),
          reqs |-> [rs EXCEPT ![Head(q)].st = "resolved",
                              ![Head(q)].data = buf]]
    ELSE [buffer |-> buf, queue |-> q, reqs |-> rs]

\* (mutant) a connect that opens a plain socket when connectTLS is missing
TcpConnect_FallsBackToPlain(tls, hasConnectTLS) ==
  /\ UNCHANGED nonTcpVars
  /\ nConnects < MaxConnects
  /\ socket \in {"null", "ended"}
  /\ nConnects' = nConnects + 1
  /\ connectRes' = "pending"
  /\ socket' = "connecting"
  /\ tlsSocket' = (UseTls(tls) /\ hasConnectTLS)
  /\ UNCHANGED <<connected, buffer, messageQueue, reqs, closing, streamPos, aborted, rx>>

\* connect(options): TcpSocket.connectTLS may be missing from the build.
TcpConnect(tls, hasConnectTLS) ==
  /\ UNCHANGED nonTcpVars
  /\ nConnects < MaxConnects
  /\ socket \in {"null", "ended"}
  /\ nConnects' = nConnects + 1
  /\ IF UseTls(tls) /\ ~hasConnectTLS
       THEN /\ connectRes' = "rejected:TLS connections are not supported on this build"
            /\ UNCHANGED <<socket, tlsSocket>>
       ELSE /\ connectRes' = "pending"
            /\ socket' = "connecting"
            /\ tlsSocket' = UseTls(tls)
  /\ UNCHANGED <<connected, buffer, messageQueue, reqs, closing, streamPos, aborted, rx>>

\* The connect callback of createConnection / connectTLS.
\* Events of a socket are delivered after the "close" of the sockets destroyed
\* before it was created (event delivery is first-in first-out).
SocketConnected ==
  /\ UNCHANGED nonTcpVars
  /\ socket = "connecting"
  /\ closing = 0
  /\ socket' = "open"
  /\ connected' = TRUE
  /\ connectRes' = Settle(connectRes, "resolved")
  /\ UNCHANGED <<tlsSocket, buffer, messageQueue, reqs, closing, streamPos,
                 nConnects, aborted, rx>>

\* The history of returned bytes after the requests of queue q were served:
\* those that are resolved in rs got their data, in queue order.
RECURSIVE ReturnedTo(_, _, _)
ReturnedTo(got, rs, q) ==
  IF q = <<>> THEN got
  ELSE ReturnedTo(IF rs[Head(q)].st = "resolved" THEN got \o rs[Head(q)].data ELSE got,
                  rs, Tail(q))

Returned(rs, q) == [rx EXCEPT !.got = ReturnedTo(@, rs, q)]

\* socket.on("data"): n more bytes of the stream arrive.
SocketData(n) ==
  /\ UNCHANGED nonTcpVars
  /\ socket = "open"
  /\ closing = 0
  /\ streamPos + n <= MaxStream
  /\ LET chunk == [i \in 1..n |-> streamPos + i]
         r == ProcessBuffer(buffer \o chunk, messageQueue, reqs)
     IN /\ buffer' = r.buffer
        /\ messageQueue' = r.queue
        /\ reqs' = r.reqs
        /\ rx' = Returned(r.reqs, messageQueue)
  /\ streamPos' = streamPos + n
  /\ UNCHANGED <<socket, connected, tlsSocket, connectRes, closing, nConnects, aborted>>

\* socket.on("error")
SocketError ==
  /\ UNCHANGED nonTcpVars
  /\ socket \in {"connecting", "open"}
  /\ closing = 0
  /\ connectRes' = IF ~connected THEN Settle(connectRes, "rejected:error") ELSE connectRes
  /\ reqs' = RejectedAll(reqs, messageQueue, "error")
  /\ messageQueue' = <<>>
  /\ UNCHANGED <<socket, connected, tlsSocket, buffer, closing, streamPos,
                 nConnects, aborted, rx>>

\* (mutant) a close handler that forgets rejectPendingMessages
CloseHandlerReqs_KeepPending(rs, q) == rs

\* (mutant) a close handler that rejects with another error
CloseHandlerReqs_OtherError(rs, q) == RejectedAll(rs, q, "error")

\* The body of the "close" handler.
CloseHandlerReqs(rs, q) == RejectedAll(rs, q, "Connection closed")

\* socket.on("close") of the current socket (the peer or an error closed it).
SocketClose ==
  /\ UNCHANGED nonTcpVars
  /\ socket \in {"connecting", "open"}
  /\ closing = 0
  /\ socket' = "ended"
  /\ connected' = FALSE
  /\ reqs' = CloseHandlerReqs(reqs, messageQueue)
  /\ messageQueue' = <<>>
  /\ UNCHANGED <<tlsSocket, buffer, connectRes, closing, streamPos, nConnects, aborted, rx>>

\* socket.on("close") of a socket that disconnect() destroyed: the handler is
\* still registered and acts on the same TcpClient.
DestroyedSocketClose ==
  /\ UNCHANGED nonTcpVars
  /\ closing > 0
  /\ closing' = closing - 1
  /\ connected' = FALSE
  /\ reqs' = CloseHandlerReqs(reqs, messageQueue)
  /\ messageQueue' = <<>>
  /\ UNCHANGED <<socket, tlsSocket, buffer, connectRes, streamPos, nConnects, aborted, rx>>

\* disconnect(): destroys the socket, if there is one. It does not touch
\* messageQueue.
DisconnectEffect ==
  IF socket # "null"
    THEN /\ socket' = "null"
         /\ connected' = FALSE
         /\ buffer' = <<>>
         /\ closing' = IF socket = "ended" THEN closing ELSE closing + 1
         /\ aborted' = aborted \cup {messageQueue[k] : k \in 1..Len(messageQueue)}
         /\ rx' = [start |-> streamPos, got |-> <<>>]
    ELSE UNCHANGED <<socket, connected, buffer, closing, aborted, rx>>

TcpDisconnect ==
  /\ UNCHANGED nonTcpVars
  /\ socket # "null"
  /\ DisconnectEffect
  /\ UNCHANGED <<tlsSocket, messageQueue, reqs, connectRes, streamPos, nConnects>>

\* socket.on("timeout"): rejects the connect promise and calls disconnect().
SocketTimeout ==
  /\ UNCHANGED nonTcpVars
  /\ socket \in {"connecting", "open"}
  /\ closing = 0
  /\ connectRes' = Settle(connectRes, "rejected:Connection timeout")
  /\ DisconnectEffect
  /\ UNCHANGED <<tlsSocket, messageQueue, reqs, streamPos, nConnects>>

\* The outcome of receive(expectedLength); expectedLength = 0 stands for an
\* absent argument (and for 0, which JavaScript treats alike).
ReceiveOutcome(buf, expectedLength) ==
  IF expectedLength # 0 /\ Len(buf) >= expectedLength
    THEN [imm |-> TRUE, data |-> SubSeq(buf, 1, expectedLength),
          buffer |-> SubSeq(buf, expectedLength + 1, Len(buf))]
    ELSE [imm |-> FALSE, data |-> <<>>, buffer |-> buf]

\* receive(expectedLength), called by a driver that holds a connected
\* transport (every driver calls it in the turn in which a send or an earlier
\* receive completed).
TcpReceive(expectedLength) ==
  /\ UNCHANGED nonTcpVars
  /\ connected
  /\ Len(reqs) < MaxReq
  /\ LET o == ReceiveOutcome(buffer, expectedLength)
         id == Len(reqs) + 1
     IN /\ buffer' = o.buffer
        /\ reqs' = Append(reqs, [pre |-> buffer, imm |-> o.imm,
                                 st |-> IF o.imm THEN "resolved" ELSE "pending",
                                 data |-> o.data, err |-> "", post |-> o.buffer])
        /\ messageQueue' = IF o.imm THEN messageQueue ELSE Append(messageQueue, id)
        /\ rx' = [rx EXCEPT !.got = @ \o o.data]
  /\ UNCHANGED <<socket, connected, tlsSocket, connectRes, closing, streamPos,
                 nConnects, aborted>>

TcpStep ==
  \/ \E tls \in TlsValues, has \in BOOLEAN : TcpConnect(tls, has)
  \/ SocketConnected
  \/ \E n \in 1..MaxStream : SocketData(n)
  \/ SocketError
  \/ SocketClose
  \/ DestroyedSocketClose
  \/ TcpDisconnect
  \/ SocketTimeout
  \/ \E len \in 0..MaxStream : TcpReceive(len)


(***************************************************************************)
(* ConnectionPool                                                          *)
(*                                                                         *)
(* Time is kept as ages: an entry's age is Date.now() - lastUsed and a     *)
(* waiter's is Date.now() - startTime, both counted in ticks and capped    *)
(* one tick above the timeout they are compared with. An entry in use     *)
(* ages like any other: its lastUsed is the time it was taken.             *)
(***************************************************************************)

\* The configs in use, by pool key (getPoolKey), and the callers of the pool.
Keys == {"k1"}
Callers == {"a", "b", "c"}
ConnIds == 1..MaxConns

\* Identities for the arrays alive at one time: one per key in this.pools, one
\* more per key while a sweep replaces them, one per acquire in flight.
ArrIds == 1..(2 * Cardinality(Keys) + Cardinality(Callers))

Idle == [pc |-> "idle", key |-> "", arr |-> 0, conn |-> 0, waited |-> 0,
         via |-> ""]

\* No driver instance behind this identity.
NoConn == [key |-> "", st |-> "free", inUse |-> FALSE, age |-> 0]

\* destroyAll() has not been called.
NoShutdown == [phase |-> "no", left |-> {}]

PoolInit ==
  /\ pools = [k \in Keys |-> 0]
  /\ arrays = [a \in ArrIds |-> <<>>]
  /\ conns = [id \in ConnIds |-> NoConn]
  /\ callers = [c \in Callers |-> Idle]

\* The arrays some reference can still reach.
Refs(ps, cs) ==
  {ps[k] : k \in Keys} \cup
  {cs[c].arr : c \in {x \in Callers : cs[x].pc \in {"connecting", "waiting"}}}

Min(S) == CHOOSE x \in S : \A y \in S : x <= y

\* A new array: an identity no reference reaches.
FreshArr == Min(ArrIds \ Refs(pools, callers))

\* Arrays and driver instances that nothing refers to any more are garbage.
CollectArrays(ps, cs, as) ==
  [a \in ArrIds |-> IF a \in Refs(ps, cs) THEN as[a] ELSE <<>>]

Reachable(ps, cs, as, id) ==
  \/ \E c \in Callers : cs[c].conn = id
  \/ \E a \in Refs(ps, cs) \ {0} : \E i \in 1..Len(as[a]) : as[a][i] = id

CollectConns(ps, cs, as, cn) ==
  [id \in ConnIds |-> IF Reachable(ps, cs, as, id) THEN cn[id] ELSE NoConn]

\* The next state of the pool, garbage collected.
Commit(ps, cs, as, cn) ==
  /\ pools' = ps
  /\ callers' = cs
  /\ arrays' = CollectArrays(ps, cs, as)
  /\ conns' = CollectConns(ps, cs, as, cn)

\* (mutant) a lookup that ignores inUse
FirstAvailable_AnyEntry(seq, cn) == IF Len(seq) > 0 THEN 1 ELSE 0

\* pool.find((pc) => !pc.inUse): the index of the first idle entry, 0 if none.
FirstAvailable(seq, cn) ==
  IF \E i \in 1..Len(seq) : ~cn[seq[i]].inUse
    THEN Min({i \in 1..Len(seq) : ~cn[seq[i]].inUse})
    ELSE 0

\* available.inUse = true; available.lastUsed = Date.now()
Taken(cn, id) == [cn EXCEPT ![id].inUse = TRUE, ![id].age = 0]

\* pool.length < this.config.maxSize
UnderMaxSize(seq) == Len(seq) < PoolMaxSize

\* acquire(config, factory) up to its first suspension point or its return.
Acquire(c, k) ==
  /\ callers[c].pc = "idle"
  /\ LET had == pools[k] # 0
         a == IF had THEN pools[k] ELSE FreshArr
         seq == IF had THEN arrays[a] ELSE <<>>
         np == [pools EXCEPT ![k] = a]
         av == FirstAvailable(seq, conns)
         new == Min({id \in ConnIds : conns[id].st = "free"})
     IN IF av # 0
          THEN Commit(np,
                      [callers EXCEPT ![c] =
                         [Idle EXCEPT !.pc = "holding", !.key = k,
                                      !.conn = seq[av], !.via = "reuse"]],
                      arrays, Taken(conns, seq[av]))
          ELSE IF UnderMaxSize(seq)
            THEN \* factory(config); await connection.connect()
                 /\ \E id \in ConnIds : conns[id].st = "free"
                 /\ Commit(np,
                           [callers EXCEPT ![c] =
                              [Idle EXCEPT !.pc = "connecting", !.key = k, !.arr = a,
                                           !.conn = new]],
                           arrays,
                           [conns EXCEPT ![new] =
                              [key |-> k, st |-> "connecting", inUse |-> FALSE,
                               age |-> 0]])
            ELSE \* return this.waitForAvailable(pool)
                 Commit(np,
                        [callers EXCEPT ![c] =
                           [Idle EXCEPT !.pc = "waiting", !.key = k, !.arr = a]],
                        arrays, conns)
  /\ UNCHANGED nonPoolVars

\* acquire after connect() resolved: the entry is pushed onto the array that
\* acquire looked up before it awaited.
AcquireConnected(c) ==
  /\ callers[c].pc = "connecting"
  /\ LET me == callers[c]
     IN Commit(pools,
               [callers EXCEPT ![c] =
                  [Idle EXCEPT !.pc = "holding", !.key = me.key, !.conn = me.conn,
                               !.via = "create"]],
               [arrays EXCEPT ![me.arr] = Append(@, me.conn)],
               [conns EXCEPT ![me.conn] =
                  [key |-> me.key, st |-> "pooled", inUse |-> TRUE, age |-> 0]])
  /\ UNCHANGED nonPoolVars

\* acquire after connect() threw: the error propagates, nothing is pooled.
AcquireConnectFailed(c) ==
  /\ callers[c].pc = "connecting"
  /\ Commit(pools, [callers EXCEPT ![c] = Idle], arrays, conns)
  /\ UNCHANGED nonPoolVars

\* (mutant) a wait that is over at the first check
TimedOut_AtOnce(me) == TRUE

\* Date.now() - startTime > this.config.acquireTimeoutMs
TimedOut(me) == me.waited > AcquireTimeout

\* A run of waitForAvailable's interval callback that ends the wait.
WaitCheck(c) ==
  /\ callers[c].pc = "waiting"
  /\ LET me == callers[c]
         seq == arrays[me.arr]
         av == FirstAvailable(seq, conns)
     IN IF av # 0
          THEN Commit(pools,
                      [callers EXCEPT ![c] =
                         [Idle EXCEPT !.pc = "holding", !.key = me.key,
                                      !.conn = seq[av], !.via = "wait"]],
                      arrays, Taken(conns, seq[av]))
          ELSE \* reject(new Error("Connection pool exhausted"))
               /\ TimedOut(me)
               /\ Commit(pools,
                         [callers EXCEPT ![c] = [Idle EXCEPT !.via = "exhausted"]],
                         arrays, conns)
  /\ UNCHANGED nonPoolVars

\* release(config, connection) by the caller that holds the connection.
Release(c) ==
  /\ callers[c].pc = "holding"
  /\ LET me == callers[c]
         a == pools[me.key]
         found == a # 0 /\ \E i \in 1..Len(arrays[a]) : arrays[a][i] = me.conn
     IN Commit(pools, [callers EXCEPT ![c] = Idle], arrays,
               IF found
                 THEN [conns EXCEPT ![me.conn].inUse = FALSE, ![me.conn].age = 0]
                 ELSE conns)
  /\ UNCHANGED nonPoolVars

\* (mutant) a filter that looks at lastUsed alone
KeepsEntry_ByAgeOnly(pc) == ~(pc.age > IdleTimeout)

\* The filter of cleanupIdleConnections: TRUE for the entries it keeps.
KeepsEntry(pc) == pc.inUse \/ ~(pc.age > IdleTimeout)

Kept(seq) == SelectSeq(seq, LAMBDA id : KeepsEntry(conns[id]))

\* cleanupIdleConnections(): the key gets a new, filtered array, or loses its
\* entry when nothing is kept; the entries filtered out are disconnected.
\* (One key is modelled, so the loop over this.pools has one round.)
Sweep ==
  /\ shutdown.phase = "no"
  /\ \E k \in Keys : pools[k] # 0
  /\ LET k == CHOOSE x \in Keys : pools[x] # 0
         old == arrays[pools[k]]
         act == Kept(old)
         np == [pools EXCEPT ![k] = IF act = <<>> THEN 0 ELSE FreshArr]
         na == IF act = <<>> THEN arrays ELSE [arrays EXCEPT ![FreshArr] = act]
         dropped == {old[i] : i \in {j \in 1..Len(old) : ~KeepsEntry(conns[old[j]])}}
     IN Commit(np, callers, na,
               [id \in ConnIds |->
                  IF id \in dropped THEN [conns[id] EXCEPT !.st = "disconnected"]
                                    ELSE conns[id]])
  /\ UNCHANGED nonPoolVars

\* One tick of time passes.
Aged(cn) ==
  [id \in ConnIds |->
     IF cn[id].st \in {"pooled", "disconnected"} /\ cn[id].age <= IdleTimeout
       THEN [cn[id] EXCEPT !.age = @ + 1] ELSE cn[id]]

Waited(cs) ==
  [c \in Callers |->
     IF cs[c].pc = "waiting" /\ cs[c].waited <= AcquireTimeout
       THEN [cs[c] EXCEPT !.waited = @ + 1] ELSE cs[c]]

Tick ==
  /\ conns' = Aged(conns)
  /\ callers' = Waited(callers)
  /\ <<conns', callers'>> # <<conns, callers>>
  /\ UNCHANGED <<pools, arrays>>
  /\ UNCHANGED nonPoolVars

\* The entries destroyAll's loops over this.pools.values() visit.
Pooled(ps, as) ==
  {id \in ConnIds : \E k \in Keys : ps[k] # 0 /\
                       \E i \in 1..Len(as[ps[k]]) : as[ps[k]][i] = id}

nonShutdownVars == <<tcpVars, uiVars, drv, frm, scram, rset, bson, lenenc, store, sess, cstore>>

\* destroyAll() up to `await Promise.all(destroyPromises)`: the cleanup timer
\* is cleared and disconnect() is called on every entry of every pool.
DestroyAll ==
  /\ shutdown.phase = "no"
  /\ shutdown' = [shutdown EXCEPT !.phase = "awaiting"]
  /\ conns' = [id \in ConnIds |->
                 IF id \in Pooled(pools, arrays)
                   THEN [conns[id] EXCEPT !.st = "disconnected"]
                   ELSE conns[id]]
  /\ UNCHANGED <<pools, arrays, callers>>
  /\ UNCHANGED nonShutdownVars

\* destroyAll() after the await: this.pools.clear(). `left` records the driver
\* instances that exist at this moment without disconnect() having been
\* called on them.
DestroyAllDone ==
  /\ shutdown.phase = "awaiting"
  /\ shutdown' = [phase |-> "done",
                  left |-> {id \in ConnIds : conns[id].st \in {"connecting", "pooled"}}]
  /\ Commit([k \in Keys |-> 0], callers, arrays, conns)
  /\ UNCHANGED nonShutdownVars

PoolStep ==
  \/ \E c \in Callers, k \in Keys : Acquire(c, k)
  \/ \E c \in Callers : AcquireConnected(c)
  \/ \E c \in Callers : AcquireConnectFailed(c)
  \/ \E c \in Callers : WaitCheck(c)
  \/ \E c \in Callers : Release(c)
  \/ Sweep
  \/ Tick

(***************************************************************************)
(* The wire-protocol drivers: connect() with its authentication exchange,  *)
(* and query().                                                            *)
(*                                                                         *)
(* A driver owns one TcpClient (socket, connected, tlsSocket). Each step   *)
(* runs the driver from one `await client.receive()` to the next: the      *)
(* server's next message m has arrived whole, and the writes the driver    *)
(* makes in answer succeed (w) or fail in the write callback.              *)
(***************************************************************************)

Drivers == {"postgres", "mysql", "mongodb"}

\* config.ssl: a boolean, an SslConfig object, or missing from the object.
SslForms == TlsValues \cup {"absent"}

\* JavaScript truthiness of config.ssl: every object is truthy.
Truthy(ssl) == ssl \in {"true", "objEnabled", "objDisabled"}

NoCall == [call |-> "none", outcome |-> "none", cause |-> "", msg |-> "",
           state |-> "disconnected", error |-> "", sockOpen |-> FALSE]

\* new XxxConnection(config)
NewDriver(kind, ssl, password) ==
  [kind |-> kind, ssl |-> ssl, password |-> password,
   state |-> "disconnected", error |-> "",
   pc |-> "idle", call |-> "none", stage |-> "",
   fullAuthAsked |-> FALSE, passwordOnWire |-> "none",
   queries |-> 0, last |-> NoCall,
   serverAuth |-> "pending", closePending |-> FALSE, afterDisconnect |-> "none",
   serverText |-> <<>>, errorText |-> <<>>,
   sequenceId |-> 0, lastSeq |-> 0, fastAuth |-> "none",
   lastSent |-> [kind |-> "none", seq |-> 0, prev |-> 0]]

\* The call in progress throws. connect() catches, sets state to error with
\* the message and rethrows; query() has no handler, the state stays.
Throw(d, cause, msg, sockOpen) ==
  LET st == IF d.call = "connect" THEN "error" ELSE d.state
      er == IF d.call = "connect" THEN msg ELSE d.error
  IN [d EXCEPT !.pc = "idle", !.stage = "", !.state = st, !.error = er,
               !.last = [call |-> d.call, outcome |-> "throw", cause |-> cause,
                         msg |-> msg, state |-> st, error |-> er,
                         sockOpen |-> sockOpen]]

\* The call in progress returns.
Return(d) ==
  LET st == IF d.call = "connect" THEN "connected" ELSE d.state
  IN [d EXCEPT !.pc = "idle", !.stage = "", !.state = st,
               !.last = [call |-> d.call, outcome |-> "ok", cause |-> "",
                         msg |-> "", state |-> st, error |-> d.error,
                         sockOpen |-> TRUE]]

\* await client.send(...) followed by the next await of a receive.
SendThen(d, w, stage) ==
  IF w THEN [d EXCEPT !.stage = stage]
       ELSE Throw(d, "send", "write failed", TRUE)

\* The tls option the driver hands to client.connect(): MySQL and MongoDB pass
\* sslConfigToTlsOptions(config.ssl), Postgres passes config.ssl; a missing
\* option defaults to false.
TlsOption(d) == IF d.ssl = "absent" THEN "false" ELSE sslConfigToTlsOptions(d.ssl)

\* connect() up to `await this.client.connect(...)`. sslConfigToTlsOptions
\* reads ssl.enabled of a missing config.ssl inside the try block.
DrvConnect ==
  /\ drv.pc = "idle"
  /\ drv.last.call = "none"
  /\ LET d == [drv EXCEPT !.state = "connecting", !.call = "connect"]
     IN IF d.kind # "postgres" /\ d.ssl = "absent"
          THEN /\ drv' = Throw(d, "config", "TypeError", FALSE)
               /\ UNCHANGED <<socket, tlsSocket>>
          ELSE /\ drv' = [d EXCEPT !.pc = "tcp"]
               /\ socket' = "connecting"
               /\ tlsSocket' = UseTls(TlsOption(d))
  /\ UNCHANGED <<connected, nonDrvVars>>

\* client.connect() settles: the connect callback, an error or timeout event,
\* or no connectTLS in the build. On success authenticate() starts: Postgres
\* sends the startup message, MongoDB the hello command, MySQL awaits the
\* server's handshake.
DrvTcpSettled(outcome, w) ==
  /\ drv.pc = "tcp"
  /\ outcome = "noTls" => tlsSocket
  /\ IF outcome = "ok"
       THEN /\ socket' = "open"
            /\ connected' = TRUE
            /\ LET d == [drv EXCEPT !.pc = "await"]
               IN drv' = CASE d.kind = "postgres" -> SendThen(d, w, "auth")
                           [] d.kind = "mysql" -> [d EXCEPT !.stage = "handshake"]
                           [] d.kind = "mongodb" -> SendThen(d, w, "hello")
            /\ UNCHANGED tlsSocket
       ELSE /\ socket' = IF outcome = "timeout" THEN "null" ELSE socket
            /\ connected' = FALSE
            /\ drv' = Throw(drv, "transport", outcome, FALSE)
            /\ UNCHANGED tlsSocket
  /\ UNCHANGED nonDrvVars

\* Where a password that the driver writes as it is ends up: nowhere when the
\* write fails, else inside the TLS session or in clear on the TCP stream.
Written(w) == IF ~w THEN "none" ELSE IF tlsSocket THEN "tls" ELSE "plain"

\* MySQLConnection.receivePacket: this.sequenceId = header.sequenceId
ReceivePacket(d, s) ==
  IF d.kind = "mysql" THEN [d EXCEPT !.sequenceId = s, !.lastSeq = s] ELSE d

\* (mutant) a sequence id that is not incremented
NextSequenceId_Same(d) == d.sequenceId

\* this.sequenceId++
NextSequenceId(d) == d.sequenceId + 1

\* MySQLConnection.sendPacket: wrapPacket(payload, this.sequenceId). History:
\* the packet, the sequence id of the packet exchanged before it, and
\* whether authenticate() sends it after a fast-auth success.
SendPacket(d, kind) ==
  [d EXCEPT !.lastSent = [kind |-> kind, seq |-> d.sequenceId, prev |-> d.lastSeq],
            !.lastSeq = d.sequenceId,
            !.fastAuth = IF @ = "seen" /\ kind \notin {"query", "quit"}
                           THEN "sentAfter" ELSE @]

\* handleCachingSha2FastAuth(payload) with payload[1] = 0x04: the server asks
\* for full authentication.
FullAuthentication(d, w) ==
  LET a == [d EXCEPT !.fullAuthAsked = TRUE]
  IN IF Truthy(a.ssl)
       THEN SendThen(SendPacket([a EXCEPT !.passwordOnWire = Written(w),
                                          !.sequenceId = NextSequenceId(a)],
                                "password"),
                     w, "finalResult")
       ELSE Throw(a, "tls", "caching_sha2_password requires SSL for full authentication",
                  TRUE)

\* (mutant) handleCachingSha2FastAuth that goes on to full authentication
\* after 0x03 too
CachingSha2FastAuth_AlwaysFull(d, m, w) ==
  CASE m = "fast03" ->
         FullAuthentication([d EXCEPT !.fastAuth = "seen"], w)
    [] m = "full04" -> FullAuthentication(d, w)
    [] OTHER -> Return(d)

\* handleCachingSha2FastAuth(payload), payload[0] = 0x01
CachingSha2FastAuth(d, m, w) ==
  CASE m = "fast03" -> [d EXCEPT !.stage = "finalResult", !.fastAuth = "seen"]
    [] m = "full04" -> FullAuthentication(d, w)
    [] OTHER -> Return(d)

MySQLAuthMessages ==
  {"handshake", "ok", "switchSha2", "switchNative", "fast03", "full04",
   "moreData", "err", "other"}

IsMoreData(m) == m \in {"fast03", "full04", "moreData"}

\* MySQLConnection.authenticate / handleAuthSwitch / handleCachingSha2FastAuth
MySQLAuthenticate(d, m, w) ==
  CASE d.stage = "handshake" ->
         SendThen(SendPacket([d EXCEPT !.sequenceId = 1], "handshakeResponse"),
                  w, "authResult")
    [] d.stage = "authResult" ->
         (CASE m = "ok" -> Return(d)
            [] m \in {"switchSha2", "switchNative"} ->
                 SendThen(SendPacket([d EXCEPT !.sequenceId = NextSequenceId(d)],
                                     "authSwitchResponse"),
                          w, IF m = "switchSha2" THEN "switchResultSha2"
                                                 ELSE "switchResultNative")
            [] IsMoreData(m) -> CachingSha2FastAuth(d, m, w)
            [] m = "err" -> Throw(d, "auth", "server error", TRUE)
            [] OTHER -> Throw(d, "protocol", "Unexpected authentication response", TRUE))
    [] d.stage \in {"switchResultSha2", "switchResultNative"} ->
         (CASE IsMoreData(m) /\ d.stage = "switchResultSha2" ->
                 CachingSha2FastAuth(d, m, w)
            [] m = "err" -> Throw(d, "auth", "server error", TRUE)
            [] m = "ok" -> Return(d)
            [] OTHER -> Throw(d, "auth", "Authentication failed", TRUE))
    [] d.stage = "finalResult" ->
         IF m = "err" THEN Throw(d, "auth", "server error", TRUE) ELSE Return(d)

PostgresAuthMessages ==
  {"authOk", "cleartext", "unsupportedAuth", "errorResponse", "readyForQuery"}

\* PostgresConnection.authenticate: one message of the inner loop
PostgresAuthenticate(d, m, w) ==
  CASE m = "authOk" -> d
    [] m = "cleartext" ->
         SendThen([d EXCEPT !.passwordOnWire = Written(w)], w, "auth")
    [] m = "unsupportedAuth" -> Throw(d, "protocol", "Unsupported auth type", TRUE)
    [] m = "errorResponse" -> Throw(d, "auth", "server error", TRUE)
    [] m = "readyForQuery" -> Return(d)

\* "ok": ok: 1 (with done: true where that is read); "okMore": ok: 1 with
\* done: false; "badSignature": ok: 1 with a payload whose v= is not the
\* signature the driver computed.
MongoResponses == {"ok", "okMore", "notOk", "badSignature", "badSection", "badBson"}

\* MongoDBConnection.receiveResponse: the section kind byte and decodeBson
MongoProtocolError(m) ==
  CASE m = "badSection" -> "Unsupported section kind"
    [] m = "badBson" -> "Unsupported BSON type"
    [] OTHER -> ""

MongoOk(m) == m \in {"ok", "okMore", "badSignature"}

\* MongoDBConnection.authenticate: hello, saslStart, saslContinue, and the
\* empty saslContinue sent when the reply was not done, whose response is
\* not looked at.
MongoAuthenticate(d, m, w) ==
  CASE MongoProtocolError(m) # "" -> Throw(d, "protocol", MongoProtocolError(m), TRUE)
    [] m = "notOk" /\ d.stage # "saslFinal" -> Throw(d, "auth", "server error", TRUE)
    [] d.stage = "hello" /\ MongoOk(m) ->
         IF d.password THEN SendThen(d, w, "saslStart") ELSE Return(d)
    [] d.stage = "saslStart" /\ MongoOk(m) ->
         SendThen(d, w, "saslContinue")
    [] d.stage = "saslContinue" /\ m = "badSignature" ->
         Throw(d, "auth", "Server signature verification failed", TRUE)
    [] d.stage = "saslContinue" /\ m = "ok" -> Return(d)
    [] d.stage = "saslContinue" /\ m = "okMore" -> SendThen(d, w, "saslFinal")
    [] d.stage = "saslFinal" /\ MongoProtocolError(m) = "" -> Return(d)

AuthMessages(kind) ==
  CASE kind = "postgres" -> PostgresAuthMessages
    [] kind = "mysql" -> MySQLAuthMessages
    [] kind = "mongodb" -> MongoResponses

\* What the server's message says about the authentication: accepted
\* (Postgres AuthenticationOk, MySQL OK packet, MongoDB ok: 1 to hello without
\* credentials or to the last step of the conversation), refused, or nothing.
ServerVerdict(d, m) ==
  CASE d.kind = "postgres" /\ m = "authOk" -> "ok"
    [] d.kind = "postgres" /\ m = "errorResponse" -> "failed"
    [] d.kind = "mysql" /\ m = "ok" -> "ok"
    [] d.kind = "mysql" /\ m = "err" -> "failed"
    [] d.kind = "mongodb" /\ m = "notOk" -> "failed"
    [] d.kind = "mongodb" /\ MongoOk(m) /\ d.stage = "hello" /\ ~d.password -> "ok"
    [] d.kind = "mongodb" /\ m = "ok" /\ d.stage \in {"saslContinue", "saslFinal"} -> "ok"
    [] OTHER -> d.serverAuth

\* authenticate() resumes with the server's next message. A Postgres server
\* sends ReadyForQuery only after AuthenticationOk.
DrvAuthenticate(m, w, s) ==
  /\ drv.pc = "await"
  /\ drv.call = "connect"
  /\ socket = "open"
  /\ m \in AuthMessages(drv.kind)
  /\ drv.kind = "mysql" => (m = "handshake") = (drv.stage = "handshake")
  /\ (drv.kind # "mysql" \/ m = "handshake") => s = 0
  /\ (drv.kind = "postgres" /\ m = "readyForQuery") => drv.serverAuth = "ok"
  /\ LET d == ReceivePacket([drv EXCEPT !.serverAuth = ServerVerdict(drv, m)], s)
     IN drv' = CASE d.kind = "postgres" -> PostgresAuthenticate(d, m, w)
                 [] d.kind = "mysql" -> MySQLAuthenticate(d, m, w)
                 [] d.kind = "mongodb" -> MongoAuthenticate(d, m, w)
  /\ UNCHANGED <<socket, connected, tlsSocket, nonDrvVars>>

\* query(sql) up to its first await of a receive: the isConnected() check and
\* the send of the statement.
DrvQuery(w) ==
  /\ drv.pc = "idle"
  /\ drv.last.call # "none"
  /\ drv.state = "connected"
  /\ drv.queries < MaxQueries
  /\ LET d == [drv EXCEPT !.call = "query", !.queries = @ + 1]
         q == IF d.kind = "mysql"
                THEN SendPacket([d EXCEPT !.sequenceId = 0], "query") ELSE d
     IN drv' = IF ~connected
                 THEN Throw(d, "notConnected", "Not connected", socket = "open")
                 ELSE SendThen([q EXCEPT !.pc = "await"], w, "response")
  /\ UNCHANGED <<socket, connected, tlsSocket, nonDrvVars>>

\* query(sql) called on an instance whose ConnectionState is not connected
\* (a connect() that failed, a disconnect()): the same code, which tests
\* client.isConnected() and not the state.
DrvQueryNotConnected(w) ==
  /\ drv.pc = "idle"
  /\ drv.last.call # "none"
  /\ drv.state # "connected"
  /\ drv.queries < MaxQueries
  /\ LET d == [drv EXCEPT !.call = "query", !.queries = @ + 1]
         q == IF d.kind = "mysql"
                THEN SendPacket([d EXCEPT !.sequenceId = 0], "query") ELSE d
     IN drv' = IF ~connected
                 THEN Throw(d, "notConnected", "Not connected", socket = "open")
                 ELSE SendThen([q EXCEPT !.pc = "await"], w, "response")
  /\ UNCHANGED <<socket, connected, tlsSocket, nonDrvVars>>

\* buffer.slice(from) / subarray(from), 0-based from
SliceFrom(b, from) == SubSeq(b, from + 1, Len(b))

\* buffer.slice(from, to) / subarray(from, to): `to` is clamped to the length
Slice(b, from, to) == SubSeq(b, from + 1, IF to > Len(b) THEN Len(b) ELSE to)

\* The message text of a server's error report, as character codes ("#", "M").
TextChars == {35, 77}

Texts == UNION {[1..k -> TextChars] : k \in 1..MaxText}

\* no message text in the report
NoText == <<>>

\* the text "Query failed"
QueryFailed == <<81>>

\* a || b on strings
OrElse(a, b) == IF a # NoText THEN a ELSE b

\* The payload of a Postgres ErrorResponse: fields of one type byte and a
\* NUL-terminated value, then a NUL. The server sends severity S and, when
\* it has a text, message M, in either order.
PgField(type, value) == <<type>> \o value \o <<0>>

PgErrorPayload(t, order) ==
  LET S == PgField(83, <<77>>)
      M == IF t = NoText THEN <<>> ELSE PgField(77, t)
  IN (IF order = 1 THEN S \o M ELSE M \o S) \o <<0>>

\* the index of the first NUL of p at or after i
RECURSIVE NulFrom(_, _)
NulFrom(p, i) == IF i > Len(p) \/ p[i] = 0 THEN i ELSE NulFrom(p, i + 1)

\* parseErrorResponse(payload)["M"], "" standing for undefined; offset is
\* one more than the code's, sequences being indexed from 1
RECURSIVE parseErrorResponse(_, _, _)
parseErrorResponse(payload, offset, M) ==
  IF offset > Len(payload) \/ payload[offset] = 0 THEN M
  ELSE LET valueEnd == NulFrom(payload, offset + 1)
           value == Slice(payload, offset, valueEnd - 1)
       IN parseErrorResponse(payload, valueEnd + 1,
                             IF payload[offset] = 77 THEN value ELSE M)

\* The payload of a MySQL ERR packet under CLIENT_PROTOCOL_41: 0xff, the
\* error code, "#" and five bytes of SQL state, the text.
MyErrPayload(t) == <<255, 40, 4, 35, 52, 50, 48, 48, 48>> \o t

\* (mutant) parseErrPacket that does not skip the SQL state
parseErrPacket_WithSqlState(payload) == Slice(payload, 3, Len(payload))

\* parseErrPacket(payload).errorMessage
parseErrPacket(payload) ==
  LET offset == IF Len(payload) >= 4 /\ payload[4] = 35 THEN 3 + 6 ELSE 3
  IN Slice(payload, offset, Len(payload))

\* The message of the Error that query() throws when the server reports a
\* failure with text t (NoText: without a text).
ErrorText(kind, t, order) ==
  CASE kind = "postgres" ->
         OrElse(parseErrorResponse(PgErrorPayload(t, order), 1, NoText),
                QueryFailed)
    [] kind = "mysql" -> parseErrPacket(MyErrPayload(t))
    [] kind = "mongodb" -> OrElse(t, QueryFailed)

\* query() throws on the server's report
ThrowServer(d, t, order) ==
  [Throw(d, "server", "server error", TRUE) EXCEPT
     !.serverText = t, !.errorText = ErrorText(d.kind, t, order)]

QueryMessages(kind) ==
  CASE kind = "postgres" -> {"row", "errorResponse", "readyForQuery"}
    [] kind = "mysql" -> {"ok", "resultSet", "err"}
    [] kind = "mongodb" -> MongoResponses \ {"badSignature", "okMore"}

\* query() resumes with the server's next message.
DrvQueryResponse(m, t, order, s) ==
  /\ drv.pc = "await"
  /\ drv.call = "query"
  /\ socket = "open"
  /\ m \in QueryMessages(drv.kind)
  /\ drv.kind # "mysql" => s = 0
  /\ drv' = CASE drv.kind = "postgres" ->
                   (CASE m = "row" -> drv
                      [] m = "errorResponse" -> ThrowServer(drv, t, order)
                      [] m = "readyForQuery" -> Return(drv))
              [] drv.kind = "mysql" ->
                   IF m = "err" THEN ThrowServer(ReceivePacket(drv, s), t, order)
                                ELSE Return(ReceivePacket(drv, s))
              [] drv.kind = "mongodb" ->
                   (CASE MongoProtocolError(m) # "" ->
                           Throw(drv, "protocol", MongoProtocolError(m), TRUE)
                      [] m = "notOk" -> ThrowServer(drv, t, order)
                      [] OTHER -> Return(drv))
  /\ UNCHANGED <<socket, connected, tlsSocket, nonDrvVars>>

\* disconnect(), called while no call is in progress or while one awaits the
\* server: Postgres and MySQL, when client.isConnected(), send their goodbye
\* (a failure of the write is ignored) and call client.disconnect(); MongoDB
\* calls client.disconnect(). Then the state is set. The destroyed socket's
\* close event follows and rejects the pending receive.
DrvDisconnect ==
  /\ drv.pc \in {"idle", "await"}
  /\ drv.last.call # "none" \/ drv.pc = "await"
  /\ drv.afterDisconnect = "none" \/ drv.state # "disconnected"
  /\ socket' = IF socket = "open" THEN "null" ELSE socket
  /\ connected' = FALSE
  /\ LET d == IF drv.kind = "mysql" /\ connected
                THEN SendPacket([drv EXCEPT !.sequenceId = 0], "quit") ELSE drv
     IN drv' = [d EXCEPT !.state = "disconnected", !.afterDisconnect = "disconnected",
                         !.closePending = (socket = "open" /\ drv.pc = "await")]
  /\ UNCHANGED <<tlsSocket, nonDrvVars>>

\* The close event of the socket that disconnect() destroyed.
DrvDestroyedClose ==
  /\ drv.closePending
  /\ drv' = Throw([drv EXCEPT !.closePending = FALSE], "close", "Connection closed", FALSE)
  /\ UNCHANGED <<socket, connected, tlsSocket, nonDrvVars>>

\* The socket's close event: connected = false and the pending receive, if
\* any, is rejected with "Connection closed".
DrvSocketClose ==
  /\ socket = "open"
  /\ socket' = "ended"
  /\ connected' = FALSE
  /\ drv' = IF drv.pc = "await"
              THEN Throw(drv, "close", "Connection closed", FALSE)
              ELSE drv
  /\ UNCHANGED <<tlsSocket, nonDrvVars>>

DrvStep ==
  \/ DrvConnect
  \/ \E o \in {"ok", "error", "timeout", "noTls"}, w \in BOOLEAN : DrvTcpSettled(o, w)
  \/ \E m \in MySQLAuthMessages \cup PostgresAuthMessages \cup MongoResponses,
        w \in BOOLEAN, s \in 0..MaxSeq : DrvAuthenticate(m, w, s)
  \/ \E w \in BOOLEAN : DrvQuery(w)
  \/ \E m \in {"row", "errorResponse", "readyForQuery", "ok", "resultSet", "err",
               "notOk", "badSection", "badBson"},
        t \in Texts \cup {NoText}, order \in 1..2, s \in 0..MaxSeq :
       DrvQueryResponse(m, t, order, s)
  \/ DrvSocketClose
  \/ DrvDisconnect
  \/ DrvDestroyedClose

(***************************************************************************)
(* QueryScreen on top of useConnectionStore.executeQuery and a driver's    *)
(* query().                                                                *)
(*                                                                         *)
(* The screen is open on a connection that the store holds as "connected", *)
(* so executeQuery's two guards pass. A driver's query() checks            *)
(* client.isConnected(), sends the statement and awaits client.receive();  *)
(* a statement's response is one chunk. State updates (setExecuting, ...)  *)
(* take effect with the handler step that makes them.                      *)
(***************************************************************************)

UiIdle == [executing |-> FALSE, txnActive |-> FALSE, deadlinePassed |-> FALSE,
           triggered |-> FALSE, alertOpen |-> FALSE, loadingTables |-> FALSE]

\* executeQuery(connectionId, sql) -> instance.query(sql): the statement is
\* sent and a receive request queued, or query() throws "Not connected".
\* ts: the calls in flight without the caller's finished one.
StartQuery(kind, ts) ==
  IF connected
    THEN LET o == ReceiveOutcome(buffer, 0)
             id == Len(reqs) + 1
         IN /\ reqs' = Append(reqs, [pre |-> buffer, imm |-> o.imm, st |-> "pending",
                                     data |-> <<>>, err |-> "", post |-> o.buffer])
            /\ messageQueue' = Append(messageQueue, id)
            /\ tasks' = ts \cup {[kind |-> kind, req |-> id]}
    ELSE /\ UNCHANGED <<reqs, messageQueue>>
         /\ tasks' = ts \cup {[kind |-> kind, req |-> 0]}

CanSend == Len(reqs) < MaxStatements

tcpRest == <<socket, connected, tlsSocket, buffer, connectRes, closing, streamPos,
             nConnects, aborted, rx>>

\* handleExecute up to its first suspension: the Run and Retry buttons are
\* disabled while executing.
PressRun(dangerous) ==
  /\ ~ui.executing
  /\ ~ui.alertOpen
  /\ CanSend
  /\ IF settings.dangerousOpsHint /\ dangerous
       THEN /\ ui' = [ui EXCEPT !.alertOpen = TRUE]
            /\ UNCHANGED <<reqs, messageQueue, tasks>>
       ELSE /\ ui' = [ui EXCEPT !.executing = TRUE]
            /\ StartQuery("run", tasks)
  /\ UNCHANGED <<settings, tcpRest, nonUiVars>>

\* executeWithTransaction(sql) up to its first suspension.
ExecuteWithTransaction(u) ==
  IF u.txnActive
    THEN /\ ui' = u
         /\ UNCHANGED <<reqs, messageQueue, tasks>>
    ELSE /\ ui' = [u EXCEPT !.executing = TRUE]
         /\ StartQuery("begin", tasks)

\* The user answers the "Confirm Dangerous Command" alert.
AlertChoice(action) ==
  /\ ui.alertOpen
  /\ CanSend
  /\ LET u == [ui EXCEPT !.alertOpen = FALSE]
     IN CASE action = "cancel" -> /\ ui' = u
                                  /\ UNCHANGED <<reqs, messageQueue, tasks>>
          [] action = "wrap" -> ExecuteWithTransaction(u)
          [] action = "run" -> /\ ui' = [u EXCEPT !.executing = TRUE]
                               /\ StartQuery("run", tasks)
  /\ UNCHANGED <<settings, tcpRest, nonUiVars>>

\* finalizeTransaction(action, auto) up to its first suspension.
FinalizeTransaction(u, kind) ==
  IF ~u.txnActive
    THEN /\ ui' = u
         /\ UNCHANGED <<reqs, messageQueue, tasks>>
    ELSE /\ ui' = [u EXCEPT !.executing = TRUE]
         /\ StartQuery(kind, tasks)

\* The Commit and Rollback buttons of the transaction banner, disabled while
\* executing. The alert is modal: no button of the screen is pressed under it.
PressFinalize(kind) ==
  /\ ui.txnActive
  /\ ~ui.executing
  /\ ~ui.alertOpen
  /\ CanSend
  /\ FinalizeTransaction(ui, kind)
  /\ UNCHANGED <<settings, tcpRest, nonUiVars>>

\* The transaction deadline is reached.
DeadlinePasses ==
  /\ ui.txnActive
  /\ settings.autoRollbackEnabled
  /\ ~ui.deadlinePassed
  /\ ui' = [ui EXCEPT !.deadlinePassed = TRUE]
  /\ UNCHANGED <<settings, tasks, tcpVars, nonUiVars>>

\* tick(): remaining <= 0 && !autoRollbackTriggered.current && !executing
TickFires(u) == u.deadlinePassed /\ ~u.triggered /\ ~u.executing

\* A tick of the auto-rollback interval that starts the rollback.
AutoRollbackTick ==
  /\ ui.txnActive
  /\ settings.autoRollbackEnabled
  /\ TickFires(ui)
  /\ CanSend
  /\ FinalizeTransaction([ui EXCEPT !.triggered = TRUE], "autoRollback")
  /\ UNCHANGED <<settings, tcpRest, nonUiVars>>

\* loadTables(): the Tables toggle and the refresh button of the tables panel;
\* instance.listTables() runs a catalog query through query().
PressTables ==
  /\ ~ui.loadingTables
  /\ ~ui.alertOpen
  /\ CanSend
  /\ ui' = [ui EXCEPT !.loadingTables = TRUE]
  /\ StartQuery("listTables", tasks)
  /\ UNCHANGED <<settings, tcpRest, nonUiVars>>

\* The transaction is over: state reset, and the timer effect's cleanup.
TxnClosed(u) ==
  [u EXCEPT !.txnActive = FALSE, !.deadlinePassed = FALSE, !.triggered = FALSE]

\* The handler awaiting query call t resumes; ok: the statement succeeded
\* (a resolved receive can still carry the server's error response).
QueryReturned(t, ok) ==
  /\ t \in tasks
  /\ IF t.req = 0 THEN ~ok
     ELSE \/ reqs[t.req].st = "resolved"
          \/ reqs[t.req].st = "rejected" /\ ~ok
  /\ LET rest == tasks \ {t}
         done == [ui EXCEPT !.executing = FALSE]
     IN CASE t.kind = "run" ->
               /\ ui' = done
               /\ tasks' = rest
               /\ UNCHANGED <<reqs, messageQueue>>
          [] t.kind = "listTables" ->
               /\ ui' = [ui EXCEPT !.loadingTables = FALSE]
               /\ tasks' = rest
               /\ UNCHANGED <<reqs, messageQueue>>
          [] t.kind = "begin" ->
               \* then the wrapped statement, or the catch block's rollback
               /\ CanSend
               /\ ui' = ui
               /\ StartQuery(IF ok THEN "wrapped" ELSE "cleanup", rest)
          [] t.kind = "wrapped" ->
               IF ok
                 THEN /\ ui' = [done EXCEPT !.txnActive = TRUE,
                                            !.deadlinePassed = FALSE,
                                            !.triggered = FALSE]
                      /\ tasks' = rest
                      /\ UNCHANGED <<reqs, messageQueue>>
                 ELSE /\ CanSend
                      /\ ui' = ui
                      /\ StartQuery("cleanup", rest)
          [] t.kind = "cleanup" ->
               /\ ui' = done
               /\ tasks' = rest
               /\ UNCHANGED <<reqs, messageQueue>>
          [] t.kind \in {"commit", "rollback", "autoRollback"} ->
               /\ ui' = IF ok THEN TxnClosed(done) ELSE done
               /\ tasks' = rest
               /\ UNCHANGED <<reqs, messageQueue>>
  /\ UNCHANGED <<settings, tcpRest, nonUiVars>>

\* socket.on("data") with the server's response to the oldest statement.
ResponseData ==
  /\ socket = "open"
  /\ messageQueue # <<>>
  /\ LET r == ProcessBuffer(buffer \o <<0>>, messageQueue, reqs)
     IN /\ buffer' = r.buffer
        /\ messageQueue' = r.queue
        /\ reqs' = r.reqs
        /\ rx' = Returned(r.reqs, messageQueue)
  /\ UNCHANGED <<socket, connected, tlsSocket, connectRes, closing, streamPos,
                 nConnects, aborted, uiVars, nonUiVars>>

UiStep ==
  \/ \E d \in BOOLEAN : PressRun(d)
  \/ \E a \in {"cancel", "wrap", "run"} : AlertChoice(a)
  \/ \E k \in {"commit", "rollback"} : PressFinalize(k)
  \/ DeadlinePasses
  \/ AutoRollbackTick
  \/ PressTables
  \/ \E t \in tasks, ok \in BOOLEAN : QueryReturned(t, ok)
  \/ ResponseData
  \/ SocketError
  \/ SocketClose

(***************************************************************************)
(* MySQLConnection.query reading a text result set, one receivePacket()    *)
(* at a time. The server is the MySQL protocol: the column count, one      *)
(* column definition per column, an EOF packet unless CLIENT_DEPRECATE_EOF *)
(* is in force, the rows, and an EOF packet (an OK packet with header 0xFE *)
(* under CLIENT_DEPRECATE_EOF) or an ERR packet. createHandshakeResponse41 *)
(* always asks for CLIENT_DEPRECATE_EOF, so it is in force whenever the    *)
(* server has the capability. A returned row is modelled as the sequence   *)
(* of its cells in column order (the column names are distinct).           *)
(***************************************************************************)

nonRsetVars == <<tcpVars, poolVars, uiVars, drv, frm, shutdown, scram, bson, lenenc, store, sess, cstore>>

ColumnCounts == {1, 2}

\* SQL NULL, which is no string
Null == <<-1>>

\* the values of a cell: NULL, the empty string, "a"
Cells == {Null, <<>>, <<97>>}

RowsOf(m) == UNION {[1..n -> [1..m -> Cells]] : n \in 0..MaxRows}

\* a cell on the wire: 0xFB for NULL, else a length-encoded string
EncodeCell(c) == IF c = Null THEN <<251>> ELSE <<Len(c)>> \o c

RECURSIVE EncodeRow(_)
EncodeRow(row) ==
  IF row = <<>> THEN <<>> ELSE EncodeCell(Head(row)) \o EncodeRow(Tail(row))

\* a column definition: catalog "def", schema, table, org_table, the name
\* (one letter), org_name, and the fixed-length fields
ColumnDefPayload(i) ==
  <<3, 100, 101, 102, 0, 0, 0, 1, 96 + i, 0, 12, 33, 0, 0, 0, 0, 0, 253, 0, 0, 0>>

EofPayload == <<254, 0, 0, 2, 0>>

OkAsEofPayload == <<254, 0, 0, 2, 0, 0, 0>>

\* the packets of one result set, in the order the server sends them
RECURSIVE RowPackets(_)
RowPackets(rows) ==
  IF rows = <<>> THEN <<>> ELSE <<EncodeRow(Head(rows))>> \o RowPackets(Tail(rows))

ResultSetPackets(m, rows, deprecateEof, ending) ==
  <<(<<m>>)>>
  \o [i \in 1..m |-> ColumnDefPayload(i)]
  \o (IF deprecateEof THEN <<>> ELSE <<EofPayload>>)
  \o RowPackets(rows)
  \o <<(CASE ending = "err" -> MyErrPayload(<<77>>)
          [] ending = "eof" /\ deprecateEof -> OkAsEofPayload
          [] OTHER -> EofPayload)>>

\* buffer.readUIntLE(offset, byteLength), and with it readUInt16LE and
\* readUInt32LE (for values below 2^31)
RECURSIVE readUIntLE(_, _, _)
readUIntLE(buf, offset, byteLength) ==
  IF byteLength = 0 THEN 0
  ELSE buf[offset + 1] + 256 * readUIntLE(buf, offset + 1, byteLength - 1)

\* readLengthEncodedInteger(buffer, offset); 0xFB and 0xFF read as 0
readLengthEncodedInteger(buf, offset) ==
  LET firstByte == buf[offset + 1]
  IN CASE firstByte < 251 -> [value |-> firstByte, bytesRead |-> 1]
       [] firstByte = 252 -> [value |-> readUIntLE(buf, offset + 1, 2), bytesRead |-> 3]
       [] firstByte = 253 -> [value |-> readUIntLE(buf, offset + 1, 3), bytesRead |-> 4]
       [] firstByte = 254 ->
            LET low == readUIntLE(buf, offset + 1, 4)
                high == readUIntLE(buf, offset + 5, 4)
            IN [value |-> low + (high * 65536) * 65536, bytesRead |-> 9]
       [] OTHER -> [value |-> 0, bytesRead |-> 1]

\* (mutant) a decoder that takes the 0xFD form for two bytes long
readLengthEncodedInt_ShortFD(buf, offset) ==
  LET firstByte == buf[offset + 1]
  IN IF firstByte = 253
       THEN [value |-> readUIntLE(buf, offset + 1, 2), bytesRead |-> 3]
       ELSE readLengthEncodedInteger(buf, offset)

\* MySQLConnection.readLengthEncodedInt(buffer, offset)
readLengthEncodedInt(buf, offset) ==
  LET firstByte == buf[offset + 1]
  IN CASE firstByte < 251 -> [value |-> firstByte, bytesRead |-> 1]
       [] firstByte = 252 -> [value |-> readUIntLE(buf, offset + 1, 2), bytesRead |-> 3]
       [] firstByte = 253 -> [value |-> readUIntLE(buf, offset + 1, 3), bytesRead |-> 4]
       [] firstByte = 254 ->
            LET low == readUIntLE(buf, offset + 1, 4)
                high == readUIntLE(buf, offset + 5, 4)
            IN [value |-> low + (high * 65536) * 65536, bytesRead |-> 9]
       [] OTHER -> [value |-> 0, bytesRead |-> 1]

readLengthEncodedString(buf, offset) ==
  LET n == readLengthEncodedInteger(buf, offset)
  IN [value |-> Slice(buf, offset + n.bytesRead,
                      offset + n.bytesRead + n.value),
      bytesRead |-> n.bytesRead + n.value]

\* parseColumnDefinition(payload).name: the fifth length-encoded string
RECURSIVE NthString(_, _, _)
NthString(payload, offset, n) ==
  LET str == readLengthEncodedString(payload, offset)
  IN IF n = 1 THEN str.value
     ELSE NthString(payload, offset + str.bytesRead, n - 1)

parseColumnDefinition(payload) == [name |-> NthString(payload, 0, 5)]

\* parseResultSetRow(payload, columnCount), from offset on
RECURSIVE parseResultSetRow(_, _, _)
parseResultSetRow(payload, offset, columnCount) ==
  IF columnCount = 0 \/ offset >= Len(payload) THEN <<>>
  ELSE IF payload[offset + 1] = 251
    THEN <<Null>> \o parseResultSetRow(payload, offset + 1, columnCount - 1)
  ELSE LET str == readLengthEncodedString(payload, offset)
       IN <<str.value>>
          \o parseResultSetRow(payload, offset + str.bytesRead, columnCount - 1)

NoResultSet ==
  [pc |-> "idle", server |-> [rows |-> <<>>, deprecateEof |-> FALSE,
                              ending |-> "eof"],
   wire |-> <<>>, columnCount |-> 0, columns |-> <<>>, rows |-> <<>>,
   out |-> "pending", rowCount |-> 0, error |-> NoText]

\* query(sql) has sent COM_QUERY, and the server answers with a result set
\* of m columns
MyQuerySent(m, rows, deprecateEof, ending) ==
  /\ rset.pc = "idle"
  /\ rset' = [rset EXCEPT
       !.pc = "first",
       !.server = [rows |-> rows, deprecateEof |-> deprecateEof,
                   ending |-> ending],
       !.wire = ResultSetPackets(m, rows, deprecateEof, ending)]
  /\ UNCHANGED nonRsetVars

\* query() resumes from an `await this.receivePacket()` with the next packet
MyQueryPacket ==
  /\ rset.pc \in {"first", "columns", "eofOrOk", "rows"}
  /\ rset.wire # <<>>
  /\ LET payload == Head(rset.wire)
         r == [rset EXCEPT !.wire = Tail(@)]
         Thrown == [r EXCEPT !.pc = "done", !.out = "thrown",
                             !.error = parseErrPacket(payload)]
         Returned_ == [r EXCEPT !.pc = "done", !.out = "returned",
                                !.rowCount = Len(rset.rows)]
     IN rset' =
          CASE rset.pc = "first" ->
                 (IF payload[1] = 255 THEN Thrown
                  ELSE IF payload[1] = 0
                    THEN [r EXCEPT !.pc = "done", !.out = "returned"]
                  ELSE [r EXCEPT
                          !.columnCount =
                             readLengthEncodedInt(payload, 0).value,
                          !.pc = IF readLengthEncodedInt(payload, 0).value > 0
                                   THEN "columns" ELSE "eofOrOk"])
            [] rset.pc = "columns" ->
                 [r EXCEPT
                    !.columns = Append(@, parseColumnDefinition(payload).name),
                    !.pc = IF Len(rset.columns) + 1 < rset.columnCount
                             THEN "columns" ELSE "eofOrOk"]
            [] rset.pc = "eofOrOk" ->
                 (IF payload[1] = 255 THEN Thrown ELSE [r EXCEPT !.pc = "rows"])
            [] rset.pc = "rows" ->
                 (IF payload[1] = 254 /\ Len(payload) < 9 THEN Returned_
                  ELSE IF payload[1] = 255 THEN Thrown
                  ELSE [r EXCEPT
                          !.rows = Append(@, parseResultSetRow(
                                               payload, 0, rset.columnCount))])
  /\ UNCHANGED nonRsetVars

RsetStep ==
  \/ \E m \in ColumnCounts, deprecateEof \in BOOLEAN, ending \in {"eof", "err"} :
       \E rows \in RowsOf(m) : MyQuerySent(m, rows, deprecateEof, ending)
  \/ MyQueryPacket

(***************************************************************************)
(* Length-encoded integers: the two decoders of packets.ts on the bytes a  *)
(* MySQL server writes.                                                    *)
(***************************************************************************)

nonLenencVars == <<tcpVars, poolVars, uiVars, drv, frm, shutdown, scram, rset, bson, store, sess, cstore>>

\* the integers a server sends: the ends of the ranges of the four forms
LenencValues == {0, 250, 251, 65535, 65536, 16777215, 16777216}

RECURSIVE UIntLE(_, _)
\* the byteLength low bytes of n, lowest first
UIntLE(n, byteLength) ==
  IF byteLength = 0 THEN <<>> ELSE <<n % 256>> \o UIntLE(n \div 256, byteLength - 1)

\* The server side: the length encoding of the protocol, for n below 2^31.
LengthEncoded(n) ==
  CASE n < 251 -> <<n>>
    [] n >= 251 /\ n < 65536 -> <<252>> \o UIntLE(n, 2)
    [] n >= 65536 /\ n < 16777216 -> <<253>> \o UIntLE(n, 3)
    [] OTHER -> <<254>> \o UIntLE(n, 4) \o <<0, 0, 0, 0>>

Decoders == {"readLengthEncodedInteger", "readLengthEncodedInt"}

\* Nothing written yet.
NoLenenc == [ns |-> <<>>, buf |-> <<>>, reading |-> FALSE, offset |-> 0, got |-> <<>>]

\* The server appends one more length-encoded integer to the payload.
LenencWrite(n) ==
  /\ ~lenenc.reading
  /\ Len(lenenc.ns) < MaxInts
  /\ lenenc' = [lenenc EXCEPT !.ns = Append(@, n), !.buf = @ \o LengthEncoded(n)]
  /\ UNCHANGED nonLenencVars

\* A parser reads the next integer of the payload with one of the decoders
\* and moves its offset on by bytesRead.
LenencRead(decoder) ==
  /\ lenenc.offset < Len(lenenc.buf)
  /\ LET r == IF decoder = "readLengthEncodedInteger"
                THEN readLengthEncodedInteger(lenenc.buf, lenenc.offset)
                ELSE readLengthEncodedInt(lenenc.buf, lenenc.offset)
     IN lenenc' = [lenenc EXCEPT
                     !.reading = TRUE,
                     !.offset = @ + r.bytesRead,
                     !.got = Append(@, [decoder |-> decoder,
                                        firstByte |-> lenenc.buf[lenenc.offset + 1],
                                        value |-> r.value,
                                        bytesRead |-> r.bytesRead])]
  /\ UNCHANGED nonLenencVars

LenencStep ==
  \/ \E n \in LenencValues : LenencWrite(n)
  \/ \E decoder \in Decoders : LenencRead(decoder)

(***************************************************************************)
(* The SCRAM exchanges: PostgresConnection.authenticate with scram.ts      *)
(* (SCRAM-SHA-256) and MongoDBConnection.authenticate (SCRAM-SHA-1).       *)
(* A nonce is a sequence of characters; a signature is the tuple of what   *)
(* it is computed over (the auth message: the client nonce and the         *)
(* server-first message), so that two signatures are equal exactly when    *)
(* they are computed over the same auth message with the same password.    *)
(***************************************************************************)

nonScramVars == <<tcpVars, poolVars, uiVars, drv, frm, shutdown, rset, bson, lenenc, store, sess, cstore>>

NonceChars == {1, 2}

\* generateNonce(): the characters of one random client nonce
ClientNonces == {<<c>> : c \in NonceChars}

\* the r attribute of a server-first message; <<>>: no (or an empty) r
ServerNonces == UNION {[1..k -> NonceChars] : k \in 0..MaxNonce}

\* String.prototype.startsWith
StartsWith(s, p) == Len(s) >= Len(p) /\ SubSeq(s, 1, Len(p)) = p

\* a server-first message: its r attribute, and whether s and i are there
\* and i is a positive number
ServerFirsts == [r : ServerNonces, attrs : {"ok", "missing", "badIterations"}]

NoFirst == [r |-> <<>>, attrs |-> "missing"]

NoSig == <<>>

\* serverSignature = HMAC(ServerKey, authMessage), authMessage being made of
\* the client-first-bare (the client nonce), the server-first and c=,r=
Sig(nonce, first) == <<nonce, first.r, first.attrs>>

Signatures == {Sig(n, f) : n \in ClientNonces, f \in ServerFirsts}

NoMsg == [type |-> "none", first |-> NoFirst, v |-> NoSig, done |-> FALSE]

NoScram ==
  [driver |-> "none", password |-> FALSE, stage |-> "idle", nonce |-> <<>>,
   expected |-> NoSig, first |-> NoFirst, handled |-> 0, error |-> "",
   verified |-> FALSE,
   last |-> [msg |-> NoMsg, stage |-> "idle", nonce |-> <<>>,
             expected |-> NoSig, sent |-> "none"]]

\* connect() has reached authenticate(): Postgres has sent its startup
\* message, MongoDB its hello command
ScramConnect(driver, password) ==
  /\ scram.stage = "idle"
  /\ scram' = [scram EXCEPT !.driver = driver, !.password = password,
                            !.stage = IF driver = "postgres" THEN "auth"
                                      ELSE "hello"]
  /\ UNCHANGED nonScramVars

\* (mutant) buildScramClientFinal without the test on the nonce
buildScramClientFinal_AnyNonce(nonce, first) ==
  IF first.r = <<>> \/ first.attrs = "missing"
    THEN [throw |-> "Invalid SCRAM server-first message", sig |-> NoSig]
  ELSE IF first.attrs = "badIterations"
    THEN [throw |-> "Invalid SCRAM iteration count", sig |-> NoSig]
  ELSE [throw |-> "", sig |-> Sig(nonce, first)]

\* scram.ts buildScramClientFinal(session, password, serverFirstMessage)
buildScramClientFinal(nonce, first) ==
  IF first.r = <<>> \/ first.attrs = "missing"
    THEN [throw |-> "Invalid SCRAM server-first message", sig |-> NoSig]
  ELSE IF ~StartsWith(first.r, nonce)
    THEN [throw |-> "Invalid SCRAM nonce", sig |-> NoSig]
  ELSE IF first.attrs = "badIterations"
    THEN [throw |-> "Invalid SCRAM iteration count", sig |-> NoSig]
  ELSE [throw |-> "", sig |-> Sig(nonce, first)]

\* (mutant) verifyScramServerFinal that takes any v
verifyScramServerFinal_AnyV(expected, m) ==
  IF m.type = "finalError" THEN "server error"
  ELSE IF m.type = "finalNoV" \/ expected = NoSig
    THEN "Invalid SCRAM server-final message"
  ELSE ""

\* scram.ts verifyScramServerFinal(session, serverFinalMessage): the message
\* it throws, "" when it returns
verifyScramServerFinal(expected, m) ==
  IF m.type = "finalError" THEN "server error"
  ELSE IF m.type = "finalNoV" \/ expected = NoSig
    THEN "Invalid SCRAM server-final message"
  ELSE IF m.v # expected THEN "SCRAM server signature mismatch"
  ELSE ""

\* the authentication messages a server can send to PostgresConnection
PgScramMessages ==
  {[NoMsg EXCEPT !.type = t] :
     t \in {"authOk", "unsupportedAuth", "saslNoData", "saslOther", "sasl",
            "continueNoData", "finalNoData", "finalError", "finalNoV",
            "errorResponse", "readyForQuery"}}
  \cup {[NoMsg EXCEPT !.type = "continue", !.first = f] : f \in ServerFirsts}
  \cup {[NoMsg EXCEPT !.type = "final", !.v = s] : s \in Signatures}

\* what one pass of authenticate()'s inner loop does with message m: the
\* error it throws ("" for none), the message it sends, and the session
PgScramOutcome(m, w) ==
  LET keep == [throw |-> "", sent |-> "none", nonce |-> scram.nonce,
               expected |-> scram.expected, returns |-> FALSE]
      Thrown(msg) == [keep EXCEPT !.throw = msg]
      Sent(o) == IF w THEN o ELSE [o EXCEPT !.throw = "Not connected"]
      b == buildScramClientFinal(scram.nonce, m.first)
      final == verifyScramServerFinal(scram.expected, m)
  IN CASE m.type = "authOk" -> {keep}
       [] m.type = "saslNoData" -> {Thrown("SASL mechanisms not provided")}
       [] m.type = "saslOther" ->
            {Thrown("No supported SASL mechanism available")}
       [] m.type = "sasl" ->
            {Sent([keep EXCEPT !.sent = "saslInitial", !.nonce = n,
                               !.expected = NoSig]) : n \in ClientNonces}
       [] m.type \in {"continue", "continueNoData"} ->
            (IF scram.nonce = <<>>
               THEN {Thrown("Unexpected SASL continuation")}
             ELSE IF m.type = "continueNoData"
               THEN {Thrown("SASL continuation payload missing")}
             ELSE IF b.throw # "" THEN {Thrown(b.throw)}
             ELSE {Sent([keep EXCEPT !.sent = "clientFinal",
                                     !.expected = b.sig])})
       [] m.type \in {"final", "finalNoData", "finalError", "finalNoV"} ->
            (IF scram.nonce = <<>> THEN {Thrown("Unexpected SASL final")}
             ELSE IF m.type = "finalNoData"
               THEN {Thrown("SASL final payload missing")}
             ELSE IF final # "" THEN {Thrown(final)}
             ELSE {keep})
       [] m.type = "unsupportedAuth" -> {Thrown("Unsupported auth type")}
       [] m.type = "errorResponse" -> {Thrown("Authentication failed")}
       [] m.type = "readyForQuery" -> {[keep EXCEPT !.returns = TRUE]}

\* PostgresConnection.authenticate takes the next message off its buffer.
\* History: verified, whether verifyScramServerFinal has returned for the
\* session in progress (startScramSession begins a new one).
PgScramMessage(m, w) ==
  /\ scram.driver = "postgres"
  /\ scram.stage = "auth"
  /\ scram.handled < MaxAuthMessages
  /\ \E o \in PgScramOutcome(m, w) :
       scram' = [scram EXCEPT
         !.stage = IF o.throw # "" THEN "error"
                   ELSE IF o.returns THEN "connected" ELSE "auth",
         !.error = o.throw,
         !.nonce = o.nonce,
         !.expected = o.expected,
         !.first = IF m.type = "continue" THEN m.first ELSE @,
         !.handled = @ + 1,
         !.verified = IF m.type = "sasl" THEN FALSE
                      ELSE IF m.type = "final" /\ o.throw = "" THEN TRUE
                      ELSE @,
         !.last = [msg |-> m, stage |-> scram.stage, nonce |-> scram.nonce,
                   expected |-> scram.expected, sent |-> o.sent]]
  /\ UNCHANGED nonScramVars

\* MongoDBConnection.buildScramClientFinal(password, clientNonce,
\* serverFirstMessage): attrs.r is used as it comes
MongoBuildScramClientFinal(nonce, first) ==
  IF first.attrs = "missing"
    THEN [throw |-> "TypeError", sig |-> NoSig]
    ELSE [throw |-> "", sig |-> Sig(nonce, first)]

\* the outcomes of sendCommand at each step of MongoDB's authenticate()
MongoScramReplies(stage) ==
  {[NoMsg EXCEPT !.type = t] : t \in {"notOk", "throws"}}
  \cup CASE stage = "saslStart" ->
              {[NoMsg EXCEPT !.type = "ok", !.first = f] : f \in ServerFirsts}
         [] stage = "saslContinue" ->
              {[NoMsg EXCEPT !.type = "ok", !.v = s, !.done = d] :
                 s \in Signatures \cup {NoSig}, d \in BOOLEAN}
         [] OTHER -> {[NoMsg EXCEPT !.type = "ok"]}

\* MongoDBConnection.authenticate goes on after the sendCommand it awaits
MongoScramReply(m) ==
  /\ scram.driver = "mongodb"
  /\ scram.stage \in {"hello", "saslStart", "saslContinue", "saslFinal"}
  /\ m \in MongoScramReplies(scram.stage)
  /\ LET b == MongoBuildScramClientFinal(scram.nonce, m.first)
         Last(sent) == [msg |-> m, stage |-> scram.stage,
                        nonce |-> scram.nonce, expected |-> scram.expected,
                        sent |-> sent]
         Thrown(msg) == [scram EXCEPT !.stage = "error", !.error = msg,
                                      !.last = Last("none")]
     IN CASE m.type = "throws" ->
               scram' = Thrown("Not connected")
          [] m.type # "throws" /\ scram.stage = "saslFinal" ->
               scram' = [scram EXCEPT !.stage = "connected",
                                      !.last = Last("none")]
          [] m.type = "notOk" /\ scram.stage # "saslFinal" ->
               scram' = Thrown("server error")
          [] m.type = "ok" /\ scram.stage = "hello" ->
               IF ~scram.password
                 THEN scram' = [scram EXCEPT !.stage = "connected",
                                             !.last = Last("none")]
                 ELSE \E n \in ClientNonces :
                        scram' = [scram EXCEPT !.stage = "saslStart",
                                               !.nonce = n,
                                               !.last = Last("saslStart")]
          [] m.type = "ok" /\ scram.stage = "saslStart" ->
               IF b.throw # ""
                 THEN scram' = [Thrown(b.throw) EXCEPT !.first = m.first]
                 ELSE scram' = [scram EXCEPT !.stage = "saslContinue",
                                             !.first = m.first,
                                             !.expected = b.sig,
                                             !.last = Last("clientFinal")]
          [] m.type = "ok" /\ scram.stage = "saslContinue" ->
               IF m.v # scram.expected
                 THEN scram' = Thrown("Server signature verification failed")
               ELSE IF m.done
                 THEN scram' = [scram EXCEPT !.stage = "connected",
                                             !.last = Last("none")]
               ELSE scram' = [scram EXCEPT !.stage = "saslFinal",
                                           !.last = Last("saslContinue")]
  /\ UNCHANGED nonScramVars

ScramStep ==
  \/ \E d \in {"postgres", "mongodb"}, p \in BOOLEAN : ScramConnect(d, p)
  \/ \E m \in PgScramMessages, w \in BOOLEAN : PgScramMessage(m, w)
  \/ \E m \in UNION {MongoScramReplies(s) :
                       s \in {"hello", "saslStart", "saslContinue"}} :
       MongoScramReply(m)

(***************************************************************************)
(* The BSON codec: encodeBson / encodeElement and decodeBson / decodeValue *)
(*                                                                         *)
(* A value is a record [t, v]: t names what the encoder's tests tell       *)
(* apart, v is the payload. A number is "int32" (an integer of the int32   *)
(* range), "negzero" (-0, an integer for Number.isInteger) or "double"     *)
(* (any other number, kept as the 8 bytes of its IEEE 754 form). A string  *)
(* and a key are the sequence of their UTF-8 bytes. An object is the       *)
(* sequence of its own properties <<key, value>> in the order in which     *)
(* Object.entries lists them. Offsets are those of the code, from 0.       *)
(***************************************************************************)

nonBsonVars == <<tcpVars, poolVars, uiVars, drv, frm, shutdown, scram, rset, lenenc, store, sess, cstore>>

JsNull == [t |-> "null", v |-> 0]
JsBool(b) == [t |-> "boolean", v |-> b]
JsInt(n) == [t |-> "int32", v |-> n]
JsNegZero == [t |-> "negzero", v |-> 0]
JsDouble(bytes) == [t |-> "double", v |-> bytes]
JsString(s) == [t |-> "string", v |-> s]
JsDate(ms) == [t |-> "date", v |-> ms]
JsObjectId(bytes) == [t |-> "objectId", v |-> bytes]
JsBuffer(bytes) == [t |-> "buffer", v |-> bytes]
JsArray(items) == [t |-> "array", v |-> items]
JsObject(props) == [t |-> "object", v |-> props]
\* what a throw leaves in place of a value
Thrown == [t |-> "throw", v |-> 0]

\* The keys "a", "b", "0", "1" and "__proto__".
KeyA == <<97>>
KeyB == <<98>>
Key0 == <<48>>
Key1 == <<49>>
KeyProto == <<95, 95, 112, 114, 111, 116, 111, 95, 95>>

\* An array index in the sense of the language: the canonical decimal form of
\* a non-negative integer.
IsArrayIndex(key) ==
  /\ Len(key) > 0
  /\ \A i \in 1..Len(key) : key[i] \in 48..57
  /\ (Len(key) = 1 \/ key[1] # 48)

RECURSIVE IndexValue(_)
IndexValue(key) ==
  IF key = <<>> THEN 0
  ELSE 10 * IndexValue(SubSeq(key, 1, Len(key) - 1)) + (key[Len(key)] - 48)

\* TRUE when a property named k comes before one named h in the order of an
\* object's own properties, h being there already and k new: array indices
\* in ascending numeric order first, then the other keys as they were created.
ComesBefore(k, h) ==
  IsArrayIndex(k) /\ (~IsArrayIndex(h) \/ IndexValue(k) < IndexValue(h))

HasOwn(props, key) == \E i \in 1..Len(props) : props[i][1] = key

\* CreateDataProperty, as an object literal and JSON.parse do it: a new own
\* property, or a new value for the one there is.
DefineOwn(props, key, value) ==
  IF HasOwn(props, key)
    THEN [i \in 1..Len(props) |->
            IF props[i][1] = key THEN <<key, value>> ELSE props[i]]
    ELSE LET n == Cardinality({i \in 1..Len(props) : ~ComesBefore(key, props[i][1])})
         IN SubSeq(props, 1, n) \o <<<<key, value>>>> \o SubSeq(props, n + 1, Len(props))

\* doc[key] = value on an object made by {}: the key "__proto__" reaches the
\* setter of Object.prototype and makes no own property.
JsAssign(props, key, value) ==
  IF key = KeyProto THEN props ELSE DefineOwn(props, key, value)

\* index.toString()
RECURSIVE ToDecimal(_)
ToDecimal(n) ==
  IF n < 10 THEN <<48 + n>> ELSE ToDecimal(n \div 10) \o <<48 + (n % 10)>>

\* buffer.writeInt32LE(n, ...): the four bytes of n in two's complement
writeInt32LE(n) == [i \in 1..4 |-> (n \div (256 ^ (i - 1))) % 256]

\* buffer.writeBigInt64LE(BigInt(n), ...), n being of the int32 range
writeBigInt64LE(n) == writeInt32LE(n) \o [i \in 1..4 |-> IF n < 0 THEN 255 ELSE 0]

SignedByte(b) == IF b >= 128 THEN b - 256 ELSE b

\* buffer.readInt32LE(pos)
readInt32LE(buf, pos) ==
  buf[pos + 1] + 256 * buf[pos + 2] + 65536 * buf[pos + 3]
    + 16777216 * SignedByte(buf[pos + 4])

\* Number(readBigInt64LE(pos)), for the 64-bit integers of the int32 range
readBigInt64LE(buf, pos) == readInt32LE(buf, pos)

\* buffer.indexOf(0, pos)
RECURSIVE IndexOfZero(_, _)
IndexOfZero(buf, pos) ==
  IF pos >= Len(buf) THEN -1
  ELSE IF buf[pos + 1] = 0 THEN pos ELSE IndexOfZero(buf, pos + 1)

\* buffer.subarray(from, to), buffer.toString("utf8", from, to)
Bytes(buf, from, to) == SubSeq(buf, from + 1, to)

RECURSIVE encodeBson(_)
RECURSIVE encodeElement(_, _)
RECURSIVE ArrayDoc(_, _)

\* arrayDoc after value.forEach((item, index) => arrayDoc[index.toString()] = item)
\* has run over the first n items
ArrayDoc(items, n) ==
  IF n = 0 THEN <<>>
  ELSE JsAssign(ArrayDoc(items, n - 1), ToDecimal(n - 1), items[n])

RECURSIVE Elements(_, _)
\* Buffer.concat of the elements of the first n properties
Elements(props, n) ==
  IF n = 0 THEN <<>>
  ELSE Elements(props, n - 1) \o encodeElement(props[n][1], props[n][2])

encodeBson(props) ==
  LET content == Elements(props, Len(props))
  IN writeInt32LE(4 + Len(content) + 1) \o content \o <<0>>

encodeElement(key, value) ==
  LET keyBuffer == key \o <<0>>
  IN CASE value.t = "null" -> <<10>> \o keyBuffer
       [] value.t = "boolean" -> <<8>> \o keyBuffer \o <<IF value.v THEN 1 ELSE 0>>
       [] value.t \in {"int32", "negzero"} -> <<16>> \o keyBuffer \o writeInt32LE(value.v)
       [] value.t = "double" -> <<1>> \o keyBuffer \o value.v
       [] value.t = "string" ->
            <<2>> \o keyBuffer \o writeInt32LE(Len(value.v) + 1) \o value.v \o <<0>>
       [] value.t = "date" -> <<9>> \o keyBuffer \o writeBigInt64LE(value.v)
       [] value.t = "objectId" -> <<7>> \o keyBuffer \o value.v
       [] value.t = "buffer" ->
            <<5>> \o keyBuffer \o writeInt32LE(Len(value.v)) \o <<0>> \o value.v
       [] value.t = "array" ->
            <<4>> \o keyBuffer \o encodeBson(ArrayDoc(value.v, Len(value.v)))
       [] value.t = "object" -> <<3>> \o keyBuffer \o encodeBson(value.v)

RECURSIVE decodeBson(_, _)
RECURSIVE decodeValue(_, _, _)
RECURSIVE DecodeLoop(_, _, _, _)

\* Object.values(arrayDoc)
ObjectValues(props) == [i \in 1..Len(props) |-> props[i][2]]

decodeValue(buf, pos, type) ==
  CASE type = 1 -> [value |-> JsDouble(Bytes(buf, pos, pos + 8)), newPos |-> pos + 8]
    [] type = 2 ->
         LET length == readInt32LE(buf, pos)
         IN [value |-> JsString(Bytes(buf, pos + 4, pos + 4 + length - 1)),
             newPos |-> pos + 4 + length]
    [] type = 3 ->
         LET docLength == readInt32LE(buf, pos)
             value == decodeBson(buf, pos)
         IN [value |-> value, newPos |-> pos + docLength]
    [] type = 4 ->
         LET docLength == readInt32LE(buf, pos)
             arrayDoc == decodeBson(buf, pos)
         IN [value |-> IF arrayDoc.t = "throw" THEN Thrown
                       ELSE JsArray(ObjectValues(arrayDoc.v)),
             newPos |-> pos + docLength]
    [] type = 5 ->
         LET length == readInt32LE(buf, pos)
         IN [value |-> JsBuffer(Bytes(buf, pos + 5, pos + 5 + length)),
             newPos |-> pos + 5 + length]
    [] type = 7 -> [value |-> JsObjectId(Bytes(buf, pos, pos + 12)), newPos |-> pos + 12]
    [] type = 8 -> [value |-> JsBool(buf[pos + 1] = 1), newPos |-> pos + 1]
    [] type = 9 -> [value |-> JsDate(readBigInt64LE(buf, pos)), newPos |-> pos + 8]
    [] type = 10 -> [value |-> JsNull, newPos |-> pos]
    [] type = 16 -> [value |-> JsInt(readInt32LE(buf, pos)), newPos |-> pos + 4]
    [] type \in {17, 18} -> [value |-> JsInt(readBigInt64LE(buf, pos)), newPos |-> pos + 8]
    [] OTHER -> [value |-> Thrown, newPos |-> pos]

\* the while (pos < end) loop of decodeBson, from pos on, doc being what the
\* rounds before have put together
DecodeLoop(buf, pos, end, doc) ==
  IF ~(pos < end) THEN JsObject(doc)
  ELSE LET type == buf[pos + 1]
           keyEnd == IndexOfZero(buf, pos + 1)
           key == Bytes(buf, pos + 1, keyEnd)
           r == decodeValue(buf, keyEnd + 1, type)
       IN IF r.value.t = "throw" THEN Thrown
          ELSE DecodeLoop(buf, r.newPos, end, JsAssign(doc, key, r.value))

decodeBson(buf, offset) ==
  LET docLength == readInt32LE(buf, offset)
  IN DecodeLoop(buf, offset + 4, offset + docLength - 1, <<>>)

\* The values documents are built from: one or more of every kind the encoder
\* takes, then arrays and documents of them, then arrays and documents of those.
LeafValues ==
  {JsNull, JsBool(TRUE), JsBool(FALSE),
   JsInt(1), JsInt(-1), JsInt(2147483647), JsNegZero,
   JsDouble(<<0, 0, 0, 0, 0, 0, 248, 63>>),
   JsString(<<>>), JsString(<<120>>),
   JsDate(-1),
   JsObjectId(<<1, 2, 3, 4, 5, 6, 7, 8, 9, 10, 11, 12>>),
   JsBuffer(<<>>), JsBuffer(<<7>>)}

BsonKeys == {KeyA, KeyB, Key0, KeyProto}

InnerLeaves == {JsNull, JsInt(-1), JsString(<<120>>)}

Nested1 ==
  {JsArray(<<>>), JsObject(<<>>), JsArray(<<JsInt(1), JsString(<<120>>)>>),
   JsObject(DefineOwn(DefineOwn(<<>>, KeyB, JsInt(1)), Key0, JsNull))}
  \cup {JsArray(<<l>>) : l \in LeafValues}
  \cup {JsObject(DefineOwn(<<>>, k, l)) : k \in BsonKeys, l \in InnerLeaves}

Inner ==
  {JsArray(<<l>>) : l \in InnerLeaves}
  \cup {JsObject(DefineOwn(<<>>, KeyA, l)) : l \in InnerLeaves}

Nested2 ==
  {JsArray(<<c>>) : c \in Inner} \cup {JsObject(DefineOwn(<<>>, KeyA, c)) : c \in Inner}

BsonValues == LeafValues \cup Nested1 \cup Nested2

\* No document yet.
NoBson ==
  [phase |-> "building", doc |-> <<>>, keys |-> <<>>, bytes |-> <<>>,
   out |-> JsObject(<<>>)]

\* The caller gives the document one more property (keys: the keys in the
\* order in which the caller put them in).
BsonDefine(key, value) ==
  /\ bson.phase = "building"
  /\ Len(bson.keys) < MaxFields
  /\ bson' = [bson EXCEPT
                !.doc = DefineOwn(@, key, value),
                !.keys = IF \E i \in 1..Len(@) : @[i] = key THEN @ ELSE Append(@, key)]
  /\ UNCHANGED nonBsonVars

\* encodeBson(doc)
BsonEncode ==
  /\ bson.phase = "building"
  /\ bson' = [bson EXCEPT !.phase = "encoded", !.bytes = encodeBson(bson.doc)]
  /\ UNCHANGED nonBsonVars

\* decodeBson(buffer)
BsonDecode ==
  /\ bson.phase = "encoded"
  /\ bson' = [bson EXCEPT !.phase = "decoded", !.out = decodeBson(bson.bytes, 0)]
  /\ UNCHANGED nonBsonVars

BsonStep ==
  \/ \E key \in BsonKeys, value \in BsonValues : BsonDefine(key, value)
  \/ BsonEncode
  \/ BsonDecode

(***************************************************************************)
(* The snippet store: SnippetsMutex (HistoryMutex of version.ts is the     *)
(* same class under another name) and saveSnippet, deleteSnippet and       *)
(* clearSnippets on top of it.                                             *)
(*                                                                         *)
(* An operation is a call of one of the three functions. acquire() runs    *)
(* inside the call; what follows an await runs in a later step. A snippet  *)
(* is named by the call that saved it; the stored list has the newest      *)
(* first. calls and grants keep the order in which acquire() was called    *)
(* and the order in which its promises were resolved.                      *)
(***************************************************************************)

nonStoreVars == <<tcpVars, poolVars, uiVars, drv, frm, shutdown, scram, rset, bson, lenenc, sess, cstore>>

StoreOps == {"s1", "s2", "s3"}

\* what a caller may ask for: <<function, id given to deleteSnippet>>
StoreRequests ==
  {<<"saveSnippet", "">>, <<"clearSnippets", "">>} \cup {<<"deleteSnippet", t>> : t \in StoreOps}

NoOp == [pc |-> "idle", kind |-> "", id |-> "", via |-> "", late |-> FALSE,
         value |-> <<>>, result |-> "", path |-> "", releases |-> 0]

\* addToQueryHistory and clearQueryHistory of version.ts, on historyMutex
HistoryKinds == {"addToQueryHistory", "clearQueryHistory"}

\* the query texts a caller adds to the history
HistoryQueries == {"q1", "q2"}

\* <<function, item.query given to addToQueryHistory>>
HistoryRequests ==
  {<<"clearQueryHistory", "">>} \cup {<<"addToQueryHistory", q>> : q \in HistoryQueries}

\* Nothing stored, nothing called.
NoStore ==
  [locked |-> FALSE, queue |-> <<>>, data |-> <<>>, calls |-> <<>>, grants |-> <<>>,
   ops |-> [o \in StoreOps |-> NoOp]]

\* (mutant) a release that wakes the newest waiter
Shift_Last(queue) ==
  [next |-> queue[Len(queue)], rest |-> SubSeq(queue, 1, Len(queue) - 1)]

\* this._queue.shift()
Shift(queue) == [next |-> Head(queue), rest |-> Tail(queue)]

\* release(): the store after it
MutexRelease(st) ==
  IF st.queue # <<>>
    THEN LET s == Shift(st.queue)
         IN [st EXCEPT !.queue = s.rest,
                       !.grants = Append(@, s.next),
                       !.ops[s.next].pc = "granted",
                       !.ops[s.next].via = "release"]
    ELSE [st EXCEPT !.locked = FALSE]

\* A call of saveSnippet, deleteSnippet or clearSnippets, up to its first
\* await: acquire() takes the free lock or queues a resolver.
StoreCall(o, request) ==
  /\ store.ops[o].pc = "idle"
  /\ \A w \in StoreOps : store.ops[w].kind \notin HistoryKinds
  /\ LET called == [store EXCEPT
                      !.calls = Append(@, o),
                      !.ops[o].kind = request[1],
                      !.ops[o].id = request[2],
                      !.ops[o].late =
                         \E w \in StoreOps :
                           store.ops[w].pc = "granted" /\ store.ops[w].via = "release"]
     IN store' = IF ~store.locked
                   THEN [called EXCEPT !.locked = TRUE,
                                       !.grants = Append(@, o),
                                       !.ops[o].pc = "granted",
                                       !.ops[o].via = "free"]
                   ELSE [called EXCEPT !.queue = Append(@, o),
                                       !.ops[o].pc = "queued"]
  /\ UNCHANGED nonStoreVars

\* A call of addToQueryHistory or clearQueryHistory, up to its first await.
\* historyMutex is another instance of the same class: the calls of one
\* behaviour are all on the snippets or all on the history.
HistoryCall(o, request) ==
  /\ store.ops[o].pc = "idle"
  /\ \A w \in StoreOps : store.ops[w].kind \in HistoryKinds \cup {""}
  /\ LET called == [store EXCEPT !.calls = Append(@, o),
                                 !.ops[o].kind = request[1],
                                 !.ops[o].id = request[2]]
     IN store' = IF ~store.locked
                   THEN [called EXCEPT !.locked = TRUE,
                                       !.grants = Append(@, o),
                                       !.ops[o].pc = "granted",
                                       !.ops[o].via = "free"]
                   ELSE [called EXCEPT !.queue = Append(@, o),
                                       !.ops[o].pc = "queued"]
  /\ UNCHANGED nonStoreVars

\* The function goes on after await acquire(): getSnippets() or
\* getQueryHistory() asks the store for the list, clearSnippets and
\* clearQueryHistory ask it to delete the item.
StoreResume(o) ==
  /\ store.ops[o].pc = "granted"
  /\ store' = [store EXCEPT
                 !.ops[o].pc = IF store.ops[o].kind \in {"clearSnippets", "clearQueryHistory"}
                                 THEN "writing" ELSE "reading"]
  /\ UNCHANGED nonStoreVars

\* history.some((h) => h.query.trim() === item.query.trim() && ...): an entry
\* of the history is named by the call that added it and has that call's query
isDuplicate(history, o) ==
  \E i \in 1..Len(history) : store.ops[history[i]].id = store.ops[o].id

\* history.filter((h) => !(h.query.trim() === item.query.trim() && ...))
WithoutQuery(history, o) ==
  SelectSeq(history, LAMBDA h : store.ops[h].id # store.ops[o].id)

\* snippets.filter((s) => s.id !== id)
Without(snippets, id) == SelectSeq(snippets, LAMBDA s : s # id)

\* getItemAsync settles: getSnippets returns the stored list, or [] when the
\* read failed; the function makes the new list and asks the store to set it.
StoreRead(o, ok) ==
  /\ store.ops[o].pc = "reading"
  /\ LET snippets == IF ok THEN store.data ELSE <<>>
     IN store' = [store EXCEPT
                    !.ops[o].pc = "writing",
                    !.ops[o].path =
                       IF store.ops[o].kind # "addToQueryHistory" THEN @
                       ELSE IF isDuplicate(snippets, o) THEN "duplicate"
                       ELSE "new",
                    !.ops[o].value =
                       CASE store.ops[o].kind = "saveSnippet" -> <<o>> \o snippets
                         [] store.ops[o].kind = "addToQueryHistory" ->
                              IF isDuplicate(snippets, o)
                                THEN <<o>> \o WithoutQuery(snippets, o)
                                ELSE <<o>> \o snippets
                         [] OTHER -> Without(snippets, store.ops[o].id)]
  /\ UNCHANGED nonStoreVars

\* (mutant) a release() written after the try statement and not in its
\* finally block: the return inside the try leaves without it
Finally_NotOnReturn(st, o) ==
  IF st.ops[o].path = "duplicate" THEN st
  ELSE MutexRelease([st EXCEPT !.ops[o].releases = @ + 1])

\* finally { mutex.release() }, reached from the end of the try block, from
\* its return (addToQueryHistory, line 99) and from the catch block
Finally(st, o) == MutexRelease([st EXCEPT !.ops[o].releases = @ + 1])

\* setItemAsync / deleteItemAsync settles: the function ends, with an error
\* when the store refused (addToQueryHistory only logs it), and its finally
\* block releases the mutex.
StoreWrite(o, ok) ==
  /\ store.ops[o].pc = "writing"
  /\ LET written == [store EXCEPT
                       !.data = IF ~ok THEN @
                                ELSE IF store.ops[o].kind \in {"clearSnippets", "clearQueryHistory"}
                                  THEN <<>>
                                ELSE store.ops[o].value,
                       !.ops[o].pc = "done",
                       !.ops[o].result =
                          IF ok THEN "ok"
                          ELSE IF store.ops[o].kind = "addToQueryHistory" THEN "logged"
                          ELSE "failed"]
     IN store' = Finally(written, o)
  /\ UNCHANGED nonStoreVars

StoreStep ==
  \/ \E o \in StoreOps, request \in StoreRequests : StoreCall(o, request)
  \/ \E o \in StoreOps : StoreResume(o)
  \/ \E o \in StoreOps, ok \in BOOLEAN : StoreRead(o, ok)
  \/ \E o \in StoreOps, ok \in BOOLEAN : StoreWrite(o, ok)

\* The snippets or the history.
StorageStep ==
  \/ StoreStep
  \/ \E o \in StoreOps, request \in HistoryRequests : HistoryCall(o, request)

(***************************************************************************)
(* One PostgresConnection over the connects, queries and disconnects made  *)
(* on it. The server's messages arrive whole (their reassembly from bytes  *)
(* is the matter of the section on frames); each is labelled with the      *)
(* socket it was sent on and the query it answers (0: the startup          *)
(* message), so that what a call has read can be told from what was sent   *)
(* in reply to it.                                                         *)
(***************************************************************************)

nonSessVars == <<tcpVars, poolVars, uiVars, drv, frm, shutdown, scram, rset, bson, lenenc, store, cstore>>

Msg(type, sock, q) == [type |-> type, sock |-> sock, q |-> q]

\* What a server sends in answer to the startup message on socket n:
\* AuthenticationOk and ReadyForQuery, or an ErrorResponse.
StartupReplies(n) == {<<Msg("R", n, 0), Msg("Z", n, 0)>>, <<Msg("E", n, 0)>>}

\* What a server sends in answer to Query q on socket n: a data row and
\* ReadyForQuery, or an ErrorResponse and ReadyForQuery.
QueryReplies(n, q) ==
  {<<Msg("D", n, q), Msg("Z", n, q)>>, <<Msg("E", n, q), Msg("Z", n, q)>>}

NoSessionCall == [call |-> "none", outcome |-> "none", sock |-> 0, q |-> 0,
                  state |-> "disconnected", sent |-> FALSE, taken |-> <<>>]

\* new PostgresConnection(config): no socket; wire: what the server has sent
\* on the current socket and no data event has delivered yet; tbuf: the
\* TcpClient's buffer; buffer: the driver's; taken: the messages the call in
\* progress has taken off the driver's buffer.
NoSession ==
  [state |-> "disconnected", pc |-> "idle", sock |-> 0, open |-> FALSE,
   wire |-> <<>>, tbuf |-> <<>>, buffer |-> <<>>, nq |-> 0, taken |-> <<>>,
   last |-> NoSessionCall]

\* The inner loop of authenticate(): messages are taken off this.buffer until
\* parseMessage returns null ("await"), an ErrorResponse throws, or a
\* ReadyForQuery returns. AuthenticationOk and every other type go on.
RECURSIVE PgAuthLoop(_, _)
PgAuthLoop(b, taken) ==
  IF b = <<>> THEN [end |-> "await", buffer |-> b, taken |-> taken]
  ELSE LET message == Head(b)
       IN CASE message.type = "E" ->
                 [end |-> "throw", buffer |-> Tail(b), taken |-> Append(taken, message)]
            [] message.type = "Z" ->
                 [end |-> "return", buffer |-> Tail(b), taken |-> Append(taken, message)]
            [] OTHER -> PgAuthLoop(Tail(b), Append(taken, message))

\* The inner loop of query(): rows and command tags are collected, an
\* ErrorResponse throws, a ReadyForQuery returns the result; a type the
\* switch has no case for is dropped.
RECURSIVE PgQueryLoop(_, _)
PgQueryLoop(b, taken) ==
  IF b = <<>> THEN [end |-> "await", buffer |-> b, taken |-> taken]
  ELSE LET message == Head(b)
       IN CASE message.type \in {"T", "D", "C", "I"} ->
                 PgQueryLoop(Tail(b), Append(taken, message))
            [] message.type = "E" ->
                 [end |-> "throw", buffer |-> Tail(b), taken |-> Append(taken, message)]
            [] message.type = "Z" ->
                 [end |-> "return", buffer |-> Tail(b), taken |-> Append(taken, message)]
            [] OTHER -> PgQueryLoop(Tail(b), taken)

\* How the call in progress ends, or goes on to await the next receive().
\* connect() sets the state to connected or error; query() leaves it.
PgCallEnds(s, r) ==
  LET call == IF s.pc = "auth" THEN "connect" ELSE "query"
      st == CASE r.end = "await" -> s.state
              [] call = "connect" /\ r.end = "return" -> "connected"
              [] call = "connect" /\ r.end = "throw" -> "error"
              [] OTHER -> s.state
  IN [s EXCEPT
        !.buffer = r.buffer,
        !.state = st,
        !.pc = IF r.end = "await" THEN @ ELSE "idle",
        !.taken = IF r.end = "await" THEN r.taken ELSE <<>>,
        !.last = IF r.end = "await" THEN @
                 ELSE [call |-> call,
                       outcome |-> IF r.end = "return" THEN "ok" ELSE "throw",
                       sock |-> s.sock, q |-> IF call = "query" THEN s.nq ELSE 0,
                       state |-> st, sent |-> TRUE, taken |-> r.taken]]

\* connect() on an instance whose transport is not connected: client.connect()
\* opens a new socket, authenticate() sends the startup message and awaits
\* client.receive(). Nothing assigns this.buffer here.
PgConnect(reply) ==
  /\ sess.pc = "idle"
  /\ ~sess.open
  /\ sess.sock < MaxSockets
  /\ reply \in StartupReplies(sess.sock + 1)
  /\ sess' = [sess EXCEPT !.state = "connecting", !.pc = "auth",
                          !.sock = @ + 1, !.open = TRUE,
                          !.wire = reply, !.taken = <<>>]
  /\ UNCHANGED nonSessVars

\* query(sql): the isConnected() test, the Query message, and the await of
\* client.receive(). The state is what the caller has seen.
PgQuery(reply) ==
  /\ sess.pc = "idle"
  /\ sess.state = "connected"
  /\ sess.nq < MaxSessQueries
  /\ reply \in QueryReplies(sess.sock, sess.nq + 1)
  /\ sess' = IF ~sess.open
               THEN [sess EXCEPT !.nq = @ + 1,
                                 !.last = [call |-> "query", outcome |-> "throw",
                                           sock |-> sess.sock, q |-> sess.nq + 1,
                                           state |-> sess.state, sent |-> FALSE,
                                           taken |-> <<>>]]
               ELSE [sess EXCEPT !.nq = @ + 1, !.pc = "query",
                                 !.wire = @ \o reply, !.taken = <<>>]
  /\ UNCHANGED nonSessVars

\* A data event with the next n messages of the server: TcpClient appends
\* them to its buffer and, when a receive() is pending, hands the whole
\* buffer over; the driver appends that to this.buffer and runs its loop.
PgDataEvent(n) ==
  /\ sess.open
  /\ n \in 1..Len(sess.wire)
  /\ LET data == sess.tbuf \o SubSeq(sess.wire, 1, n)
         rest == SubSeq(sess.wire, n + 1, Len(sess.wire))
     IN sess' = CASE sess.pc = "idle" ->
                       [sess EXCEPT !.wire = rest, !.tbuf = data]
                  [] sess.pc = "auth" ->
                       PgCallEnds([sess EXCEPT !.wire = rest, !.tbuf = <<>>],
                                  PgAuthLoop(sess.buffer \o data, sess.taken))
                  [] sess.pc = "query" ->
                       PgCallEnds([sess EXCEPT !.wire = rest, !.tbuf = <<>>],
                                  PgQueryLoop(sess.buffer \o data, sess.taken))
  /\ UNCHANGED nonSessVars

\* disconnect() while no call is in progress: Terminate is sent and
\* client.disconnect() destroys the socket and empties the TcpClient's
\* buffer; the state is set. this.buffer is left as it is.
PgDisconnect ==
  /\ sess.pc = "idle"
  /\ sess.last.call # "none"
  /\ sess.state # "disconnected"
  /\ sess' = [sess EXCEPT !.state = "disconnected", !.open = FALSE,
                          !.wire = <<>>, !.tbuf = <<>>]
  /\ UNCHANGED nonSessVars

SessionStep ==
  \/ \E n \in 1..MaxSockets : \E reply \in StartupReplies(n) : PgConnect(reply)
  \/ \E n \in 1..MaxSockets, q \in 1..MaxSessQueries :
       \E reply \in QueryReplies(n, q) : PgQuery(reply)
  \/ \E n \in 1..(2 * MaxSessQueries) : PgDataEvent(n)
  \/ PgDisconnect

(***************************************************************************)
(* useConnectionStore: connect and disconnect on the map                   *)
(* activeConnections, with the driver instances they create. A call       *)
(* runs up to its await of instance.connect() / instance.disconnect() in   *)
(* one step and goes on in another when that promise settles.              *)
(***************************************************************************)

nonCstoreVars == <<tcpVars, poolVars, uiVars, drv, frm, shutdown, scram, rset, bson, lenenc, store, sess>>

\* the ids of the saved connection configs
ConfigIds == {"c1"}

Instances == 1..MaxInstances

\* activeConnections.get(id) === undefined
NoEntry == [instance |-> 0, state |-> "none"]

\* create(): activeConnections: new Map(), currentConnectionId: null.
\* instances: the ConnectionState of each driver instance made so far and
\* the config id it was made for; connects, disconnects: the calls that
\* await their instance.
NoConnections ==
  [activeConnections |-> [id \in ConfigIds |-> NoEntry],
   currentConnectionId |-> "null",
   instances |-> <<>>,
   connects |-> {},
   disconnects |-> {}]

\* connect(config) up to `await instance.connect()`: only an entry that is
\* connected ends the call; otherwise a new instance is made and set under
\* config.id, and its connect() begins.
CsConnect(id) ==
  LET existing == cstore.activeConnections[id]
      instance == Len(cstore.instances) + 1
  IN IF existing.state = "connected"
       THEN /\ cstore.currentConnectionId # id
            /\ cstore' = [cstore EXCEPT !.currentConnectionId = id]
            /\ UNCHANGED nonCstoreVars
       ELSE /\ instance \in Instances
            /\ cstore' = [cstore EXCEPT
                 !.instances = Append(@, [id |-> id, state |-> "connecting"]),
                 !.activeConnections[id] =
                    [instance |-> instance, state |-> "connecting"],
                 !.connects = @ \cup {instance}]
            /\ UNCHANGED nonCstoreVars

\* The entry that is under the id now gets the state.
SetState(entries, id, state) ==
  IF entries[id] = NoEntry THEN entries
  ELSE [entries EXCEPT ![id].state = state]

\* instance.connect() settles and connect(config) goes on: the state is
\* written to connections.get(config.id).
CsConnectSettled(instance, ok) ==
  /\ instance \in cstore.connects
  /\ LET id == cstore.instances[instance].id
         state == IF ok THEN "connected" ELSE "error"
     IN cstore' = [cstore EXCEPT
          !.instances[instance].state = state,
          !.activeConnections = SetState(@, id, state),
          !.currentConnectionId = IF ok THEN id ELSE @,
          !.connects = @ \ {instance}]
  /\ UNCHANGED nonCstoreVars

\* disconnect(id), called by the screen or by disconnectAll() for each id of
\* the map, up to `await connection.instance.disconnect()`; without an entry
\* the call returns.
CsDisconnect(id) ==
  /\ cstore.activeConnections[id] # NoEntry
  /\ cstore.activeConnections[id].instance \notin cstore.disconnects
  /\ cstore' = [cstore EXCEPT
       !.disconnects = @ \cup {cstore.activeConnections[id].instance}]
  /\ UNCHANGED nonCstoreVars

\* instance.disconnect() settles (a rejection is swallowed) and disconnect(id)
\* goes on: the id is deleted from the map.
CsDisconnectSettled(instance) ==
  /\ instance \in cstore.disconnects
  /\ LET id == cstore.instances[instance].id
     IN cstore' = [cstore EXCEPT
          !.instances[instance].state = "disconnected",
          !.activeConnections[id] = NoEntry,
          !.currentConnectionId = IF @ = id THEN "null" ELSE @,
          !.disconnects = @ \ {instance}]
  /\ UNCHANGED nonCstoreVars

\* setCurrentConnection(id)
CsSetCurrentConnection(id) ==
  /\ cstore.currentConnectionId # id
  /\ cstore' = [cstore EXCEPT !.currentConnectionId = id]
  /\ UNCHANGED nonCstoreVars

ConnectionStoreStep ==
  \/ \E id \in ConfigIds : CsConnect(id)
  \/ \E instance \in Instances, ok \in BOOLEAN : CsConnectSettled(instance, ok)
  \/ \E id \in ConfigIds : CsDisconnect(id)
  \/ \E instance \in Instances : CsDisconnectSettled(instance)
  \/ \E id \in ConfigIds \cup {"null"} : CsSetCurrentConnection(id)

(***************************************************************************)
(* Frame reassembly: the Postgres parseMessage loop, MySQL receivePacket   *)
(* and MongoDB receiveResponse, fed by client.receive() chunk by chunk.    *)
(* Bytes are numbers 0..255, sequences are 1-based (offset k of the code   *)
(* is index k+1).                                                          *)
(***************************************************************************)

PayloadBytes == {0, 5}

Payloads == UNION {[1..n -> PayloadBytes] : n \in 0..MaxPayload}

\* The server side: how a frame is laid out on the wire.
Int32BE(n) == <<(n \div 16777216) % 256, (n \div 65536) % 256, (n \div 256) % 256, n % 256>>
Int32LE(n) == <<n % 256, (n \div 256) % 256, (n \div 65536) % 256, (n \div 16777216) % 256>>
Int24LE(n) == <<n % 256, (n \div 256) % 256, (n \div 65536) % 256>>

\* Postgres (the layout createQueryMessage writes): type byte, here "T",
\* int32 length counting itself, payload.
EncodePostgres(payload) == <<84>> \o Int32BE(Len(payload) + 4) \o payload

\* MySQL (wrapPacket): 3-byte length, sequence id, payload.
EncodeMySQL(sequenceId, payload) == Int24LE(Len(payload)) \o <<sequenceId>> \o payload

\* MongoDB OP_MSG (the layout sendCommand writes): messageLength, requestID,
\* responseTo, opCode 2013, flag bits, section kind 0, document bytes.
EncodeMongo(requestId, payload) ==
  Int32LE(21 + Len(payload)) \o Int32LE(requestId) \o Int32LE(0)
    \o Int32LE(2013) \o Int32LE(0) \o <<0>> \o payload

\* Frame i of a server's stream.
Encode(kind, i, payload) ==
  CASE kind = "postgres" -> EncodePostgres(payload)
    [] kind = "mysql" -> EncodeMySQL(i, payload)
    [] kind = "mongodb" -> EncodeMongo(i, payload)

\* The tag a driver reads back from frame i: the message type, the sequence
\* id, the section kind.
TagOf(kind, i) ==
  CASE kind = "postgres" -> 84
    [] kind = "mysql" -> i
    [] kind = "mongodb" -> 0

RECURSIVE Stream(_, _, _)
Stream(kind, ps, i) ==
  IF i > Len(ps) THEN <<>>
  ELSE Encode(kind, i, ps[i]) \o Stream(kind, ps, i + 1)

\* The top byte of a signed 32-bit integer carries the sign.
SignedTop(byte) == IF byte >= 128 THEN byte - 256 ELSE byte

\* buffer.readInt32BE(offset) / buffer.readInt32LE(offset), at index i
ReadInt32BE(b, i) == SignedTop(b[i]) * 16777216 + b[i+1] * 65536 + b[i+2] * 256 + b[i+3]
ReadInt32LE(b, i) == b[i] + b[i+1] * 256 + b[i+2] * 65536 + SignedTop(b[i+3]) * 16777216

NoFrame == [found |-> FALSE, tag |-> 0, length |-> 0, payload |-> <<>>]

\* (mutant) a message is taken as whole one byte early
PgWhole_OneShort(b, length) == Len(b) >= length

\* parseMessage: if (buffer.length < length + 1) return null
PgWhole(b, length) == Len(b) >= length + 1

\* parseMessage(buffer)
parseMessage(b) ==
  IF Len(b) < 5 THEN NoFrame
  ELSE LET length == ReadInt32BE(b, 2)
       IN IF ~PgWhole(b, length) THEN NoFrame
          ELSE [found |-> TRUE, tag |-> b[1], length |-> length,
                payload |-> Slice(b, 5, length + 1)]

\* The inner loop of authenticate()/query(): messages are parsed off the
\* buffer until parseMessage returns null.
RECURSIVE PgLoop(_, _)
PgLoop(b, out) ==
  LET m == parseMessage(b)
  IN IF ~m.found THEN [buffer |-> b, frames |-> out]
     ELSE PgLoop(SliceFrom(b, m.length + 1),
                 Append(out, [tag |-> m.tag, payload |-> m.payload]))

\* parsePacketHeader(buffer)
parsePacketHeader(b) ==
  IF Len(b) < 4 THEN NoFrame
  ELSE [found |-> TRUE, tag |-> b[4], length |-> b[1] + b[2] * 256 + b[3] * 65536,
        payload |-> <<>>]

\* receivePacket(), called again after each packet it returns: packets are
\* taken off the buffer until it has to await client.receive().
RECURSIVE MyLoop(_, _)
MyLoop(b, out) ==
  LET h == parsePacketHeader(b)
  IN IF h.found /\ Len(b) >= 4 + h.length
       THEN MyLoop(SliceFrom(b, 4 + h.length),
                   Append(out, [tag |-> h.tag, payload |-> Slice(b, 4, 4 + h.length)]))
       ELSE [buffer |-> b, frames |-> out]

\* receiveResponse(), called again after each response it returns; the
\* document starts at offset 21 of the response.
RECURSIVE MongoLoop(_, _)
MongoLoop(b, out) ==
  IF Len(b) >= 4 /\ Len(b) >= ReadInt32LE(b, 1)
    THEN LET messageLength == ReadInt32LE(b, 1)
             responseBuffer == Slice(b, 0, messageLength)
         IN MongoLoop(SliceFrom(b, messageLength),
                      Append(out, [tag |-> responseBuffer[21],
                                   payload |-> SliceFrom(responseBuffer, 21)]))
    ELSE [buffer |-> b, frames |-> out]

NoStream == [kind |-> "postgres", sent |-> <<>>, stream |-> <<>>, delivered |-> 0,
             buffer |-> <<>>, parsed |-> <<>>, bytewise |-> TRUE]

\* A server's stream of one or more frames, none of it delivered yet.
FrameInit ==
  /\ TcpInit
  /\ PoolInit
  /\ ui = UiIdle
  /\ settings = [autoRollbackEnabled |-> FALSE, dangerousOpsHint |-> FALSE]
  /\ tasks = {}
  /\ store = NoStore
  /\ sess = NoSession
  /\ cstore = NoConnections
  /\ lenenc = NoLenenc
  /\ bson = NoBson
  /\ rset = NoResultSet
  /\ scram = NoScram
  /\ shutdown = NoShutdown
  /\ drv = NewDriver("postgres", "false", TRUE)
  /\ \E kind \in Drivers, n \in 1..MaxFrames :
       \E ps \in [1..n -> Payloads] :
         frm = [kind |-> kind,
                sent |-> [i \in 1..n |-> [tag |-> TagOf(kind, i), payload |-> ps[i]]],
                stream |-> Stream(kind, ps, 1),
                delivered |-> 0, buffer |-> <<>>, parsed |-> <<>>, bytewise |-> TRUE]

\* data = await client.receive(); this.buffer = Buffer.concat([this.buffer, data])
\* with the next n bytes of the stream as data
Received(n) ==
  frm.buffer \o SubSeq(frm.stream, frm.delivered + 1, frm.delivered + n)

Parsed(r, n) ==
  [frm EXCEPT !.delivered = @ + n, !.bytewise = @ /\ n = 1,
              !.buffer = r.buffer, !.parsed = r.frames]

PostgresReceive(n) ==
  /\ frm.kind = "postgres"
  /\ n \in 1..(Len(frm.stream) - frm.delivered)
  /\ frm' = Parsed(PgLoop(Received(n), frm.parsed), n)
  /\ UNCHANGED nonFrameVars

MySQLReceive(n) ==
  /\ frm.kind = "mysql"
  /\ n \in 1..(Len(frm.stream) - frm.delivered)
  /\ frm' = Parsed(MyLoop(Received(n), frm.parsed), n)
  /\ UNCHANGED nonFrameVars

MongoReceive(n) ==
  /\ frm.kind = "mongodb"
  /\ n \in 1..(Len(frm.stream) - frm.delivered)
  /\ frm' = Parsed(MongoLoop(Received(n), frm.parsed), n)
  /\ UNCHANGED nonFrameVars

\* The longest chunk a stream can be delivered in.
MaxChunkLen == MaxFrames * (21 + MaxPayload)

FrameStep ==
  \/ \E n \in 1..MaxChunkLen : PostgresReceive(n)
  \/ \E n \in 1..MaxChunkLen : MySQLReceive(n)
  \/ \E n \in 1..MaxChunkLen : MongoReceive(n)

(***************************************************************************)
(* Specifications                                                          *)
(***************************************************************************)
Init ==
  /\ TcpInit
  /\ PoolInit
  /\ ui = UiIdle
  /\ settings = [autoRollbackEnabled |-> FALSE, dangerousOpsHint |-> FALSE]
  /\ tasks = {}
  /\ store = NoStore
  /\ sess = NoSession
  /\ cstore = NoConnections
  /\ lenenc = NoLenenc
  /\ bson = NoBson
  /\ rset = NoResultSet
  /\ scram = NoScram
  /\ shutdown = NoShutdown
  /\ drv = NewDriver("postgres", "false", TRUE)
  /\ frm = NoStream

SpecTcp == Init /\ [][TcpStep]_vars

\* A destroyed socket emits "close"; nothing else is assumed to happen.
SpecTcpFair == Init /\ [][TcpStep]_vars /\ WF_vars(DestroyedSocketClose)

SpecPool == Init /\ [][PoolStep]_vars

\* Time passes, and the interval timer of a waitForAvailable keeps firing.
SpecPoolFair ==
  /\ Init
  /\ [][PoolStep]_vars
  /\ WF_vars(Tick)
  /\ \A c \in Callers : WF_vars(WaitCheck(c))

\* The pool with its shutdown.
PoolShutdownStep == PoolStep \/ DestroyAll \/ DestroyAllDone

SpecPoolShutdown == Init /\ [][PoolShutdownStep]_vars

\* The screen is open on a connection that is connected.
UiInit ==
  /\ socket = "open"
  /\ connected = TRUE
  /\ tlsSocket = FALSE
  /\ buffer = <<>>
  /\ messageQueue = <<>>
  /\ reqs = <<>>
  /\ connectRes = "resolved"
  /\ closing = 0
  /\ streamPos = 0
  /\ nConnects = 1
  /\ aborted = {}
  /\ rx = [start |-> 0, got |-> <<>>]
  /\ PoolInit
  /\ ui = UiIdle
  /\ settings \in [autoRollbackEnabled : BOOLEAN, dangerousOpsHint : BOOLEAN]
  /\ tasks = {}
  /\ store = NoStore
  /\ sess = NoSession
  /\ cstore = NoConnections
  /\ lenenc = NoLenenc
  /\ bson = NoBson
  /\ rset = NoResultSet
  /\ scram = NoScram
  /\ shutdown = NoShutdown
  /\ drv = NewDriver("postgres", "false", TRUE)
  /\ frm = NoStream

SpecUi == UiInit /\ [][UiStep]_vars

\* Time passes, the interval timer of the auto-rollback effect keeps firing,
\* the server answers the statements it was sent, and the handlers awaiting
\* a query go on. The user's presses are not assumed to come.
SpecUiFair ==
  /\ UiInit
  /\ [][UiStep]_vars
  /\ WF_vars(DeadlinePasses)
  /\ WF_vars(AutoRollbackTick)
  /\ WF_vars(ResponseData)
  /\ WF_vars(\E t \in tasks, ok \in BOOLEAN : QueryReturned(t, ok))

\* A driver instance of any kind, for any form of config.ssl, just constructed.
DrvInit ==
  /\ TcpInit
  /\ PoolInit
  /\ ui = UiIdle
  /\ settings = [autoRollbackEnabled |-> FALSE, dangerousOpsHint |-> FALSE]
  /\ tasks = {}
  /\ store = NoStore
  /\ sess = NoSession
  /\ cstore = NoConnections
  /\ lenenc = NoLenenc
  /\ bson = NoBson
  /\ rset = NoResultSet
  /\ scram = NoScram
  /\ shutdown = NoShutdown
  /\ \E k \in Drivers, ssl \in SslForms, pw \in BOOLEAN :
       /\ k # "mongodb" => pw
       /\ drv = NewDriver(k, ssl, pw)
  /\ frm = NoStream

SpecDrv == DrvInit /\ [][DrvStep]_vars

\* The driver with callers that do not look at its state before query().
DrvAnyStateStep == DrvStep \/ \E w \in BOOLEAN : DrvQueryNotConnected(w)

SpecDrvAnyState == DrvInit /\ [][DrvAnyStateStep]_vars

SpecFrame == FrameInit /\ [][FrameStep]_vars

SpecScram == Init /\ [][ScramStep]_vars

SpecRset == Init /\ [][RsetStep]_vars

SpecBson == Init /\ [][BsonStep]_vars

SpecLenenc == Init /\ [][LenencStep]_vars

SpecStore == Init /\ [][StoreStep]_vars

\* Every storage call settles, and a function whose await has settled goes on.
SpecStorageFair ==
  /\ Init
  /\ [][StorageStep]_vars
  /\ \A o \in StoreOps :
       /\ WF_vars(StoreResume(o))
       /\ WF_vars(\E ok \in BOOLEAN : StoreRead(o, ok))
       /\ WF_vars(\E ok \in BOOLEAN : StoreWrite(o, ok))

SpecSession == Init /\ [][SessionStep]_vars

SpecConnectionStore == Init /\ [][ConnectionStoreStep]_vars

(***************************************************************************)
(* Claims on the transport                                                 *)
(***************************************************************************)

\* C1: a receive() called while the accumulation buffer is non-empty resolves
\* at once with all buffered bytes as one chunk and leaves the buffer empty.
C1_BufferedBytesDelivered ==
  \A i \in 1..Len(reqs) :
     reqs[i].pre # <<>> =>
        reqs[i].imm /\ reqs[i].data = reqs[i].pre /\ reqs[i].post = <<>>

\* C9: a receive that is pending when disconnect() is called is rejected with
\* "Connection closed", so its caller terminates.
C9_DisconnectRejectsPending ==
  \A i \in 1..MaxReq :
     (i \in aborted) ~>
        (i <= Len(reqs) /\ reqs[i].st = "rejected"
                        /\ reqs[i].err = "Connection closed")

C9_Witness ==
  \E i \in aborted : reqs[i].st = "rejected" /\ reqs[i].err = "Connection closed"

\* C26: a step in which the socket emits close (the current socket's, or that
\* of a socket disconnect() destroyed) leaves the transport not connected,
\* every request that was pending rejected with "Connection closed", and no
\* request pending.
C26_CloseRejectsPending ==
  [][(SocketClose \/ DestroyedSocketClose)
     => /\ ~connected'
        /\ \A i \in 1..Len(reqs) :
              reqs[i].st = "pending"
              => reqs'[i].st = "rejected" /\ reqs'[i].err = "Connection closed"
        /\ \A i \in 1..Len(reqs') : reqs'[i].st # "pending"]_vars

\* The peer closed the socket while two requests were pending.
C26_Witness ==
  /\ socket = "ended"
  /\ ~connected
  /\ Len(reqs) >= 2
  /\ \A i \in 1..2 : reqs[i].st = "rejected" /\ reqs[i].err = "Connection closed"

\* C27: a step in which the socket emits error rejects the connect() in
\* flight when the connect callback has not run yet, and rejects every
\* request that was queued when the transport was connected.
C27_ErrorRejects ==
  [][SocketError
     => /\ (~connected /\ connectRes = "pending") => connectRes' = "rejected:error"
        /\ connected
           => \A k \in 1..Len(messageQueue) :
                /\ reqs'[messageQueue[k]].st = "rejected"
                /\ reqs'[messageQueue[k]].err = "error"]_vars

\* An error event found two requests queued on a connected transport.
C27_Witness ==
  /\ connected
  /\ Len(reqs) >= 2
  /\ \A i \in 1..2 : reqs[i].st = "rejected" /\ reqs[i].err = "error"

\* C28: a connect() that asks for TLS in a build without connectTLS rejects
\* with the TLS-unsupported error and creates no socket.
C28_NoTlsNoPlaintext ==
  [][(\E tls \in TlsValues : UseTls(tls) /\ TcpConnect(tls, FALSE))
     => /\ connectRes' = "rejected:TLS connections are not supported on this build"
        /\ socket' = socket
        /\ ~connected']_vars

\* Such a connect() has been rejected and there is no socket.
C28_Witness ==
  /\ connectRes = "rejected:TLS connections are not supported on this build"
  /\ socket = "null"
  /\ nConnects = 1

(***************************************************************************)
(* Claims on the connection pool                                           *)
(***************************************************************************)

\* The driver instances of key k that the pool created and has not dropped,
\* those still connecting inside acquire included.
LiveInstances(k) ==
  {id \in ConnIds : conns[id].key = k /\ conns[id].st \in {"connecting", "pooled"}}

\* C3: for every pool key the pool never has more than maxSize driver
\* instances created and not yet dropped, in-flight connects included.
C3_AtMostMaxSize ==
  \A k \in Keys : Cardinality(LiveInstances(k)) <= PoolMaxSize

\* C4: a driver instance handed out by acquire is held by one caller only,
\* from the return of acquire until that caller releases it.
C4_ExclusiveInstances ==
  \A c, d \in Callers :
     (c # d /\ callers[c].pc = "holding" /\ callers[d].pc = "holding")
        => callers[c].conn # callers[d].conn

\* Two callers hold instances at once, one of them handed out to a waiter
\* after another caller released it.
C4_Witness ==
  \E c, d \in Callers :
     /\ c # d
     /\ callers[c].pc = "holding" /\ callers[c].via = "wait"
     /\ callers[d].pc = "holding"

\* C5: between the decision of an acquire (idle lookup, size check) and the
\* entry-list update it leads to, no other pool operation runs: while a caller
\* is inside acquire, a step either completes that acquire or leaves the map,
\* the arrays and every other caller alone.
C5_AcquireRunsToCompletion ==
  [][\A c \in Callers :
       callers[c].pc = "connecting" =>
          \/ callers'[c].pc # "connecting"
          \/ /\ pools' = pools
             /\ arrays' = arrays
             /\ \A d \in Callers \ {c} : callers'[d].pc = callers[d].pc]_vars

\* C30: a sweep takes out of a key's array exactly the entries that are not in
\* use and were last used more than idleTimeoutMs ago, and disconnects them;
\* every other entry, and so every entry in use, stays where it is, untouched.
C30_SweepRemovesExactlyExpired ==
  [][Sweep
     => \A k \in Keys :
          pools[k] # 0
          => LET old == arrays[pools[k]]
                 new == IF pools'[k] = 0 THEN <<>> ELSE arrays'[pools'[k]]
                 Expired(id) == ~conns[id].inUse /\ conns[id].age > IdleTimeout
                 Unexpired == {i \in 1..Len(old) : ~Expired(old[i])}
             IN /\ Len(new) = Cardinality(Unexpired)
                /\ \A j \in 1..Len(new) :
                      \E i \in Unexpired :
                        /\ new[j] = old[i]
                        /\ Cardinality({h \in Unexpired : h < i}) = j - 1
                /\ \A i \in 1..Len(old) :
                      IF Expired(old[i])
                        THEN conns'[old[i]].st \in {"disconnected", "free"}
                        ELSE conns'[old[i]] = conns[old[i]]]_vars

\* A sweep has left alone an entry in use that was taken more than
\* idleTimeoutMs ago.
C30_Witness ==
  \E k \in Keys :
    /\ pools[k] # 0
    /\ \E id \in ConnIds : conns[id].st = "disconnected" /\ conns[id].age > IdleTimeout
    /\ \E i \in 1..Len(arrays[pools[k]]) :
          LET pc == conns[arrays[pools[k]][i]]
          IN pc.inUse /\ pc.age > IdleTimeout /\ pc.st = "pooled"

\* C34: a driver instance that acquire returned, and that the pool has not
\* dropped, is an entry of the array the pool maps to its key.
C34_ReturnedStaysListed ==
  \A c \in Callers :
    (callers[c].pc = "holding" /\ conns[callers[c].conn].st = "pooled")
    => callers[c].conn \in Pooled(pools, arrays)

\* C35: the driver instance an acquire returns is not one the pool has
\* called disconnect() on.
C35_NeverReturnsDisconnected ==
  [][\A c \in Callers :
       (callers[c].pc # "holding" /\ callers'[c].pc = "holding")
       => conns[callers'[c].conn].st # "disconnected"]_vars

\* C29: an acquire that waits for an idle entry ends: it fails, with
\* "Connection pool exhausted", only in a check made after more than
\* acquireTimeoutMs of waiting with every entry still in use, and otherwise
\* takes an entry that is idle. (The callers are interchangeable: the wait of
\* one of them stands for the wait of each.)
C29_WaitEndsAtTimeout ==
  /\ [][\A c \in Callers :
          (callers[c].pc = "waiting" /\ callers'[c].pc # "waiting")
          => \/ /\ callers'[c].pc = "idle"
                /\ callers'[c].via = "exhausted"
                /\ callers[c].waited > AcquireTimeout
                /\ \A i \in 1..Len(arrays[callers[c].arr]) :
                      conns[arrays[callers[c].arr][i]].inUse
             \/ /\ callers'[c].pc = "holding"
                /\ ~conns[callers'[c].conn].inUse]_vars
  /\ (callers["a"].pc = "waiting") ~> (callers["a"].pc # "waiting")

\* A waiting acquire has failed on its timeout.
C29_Witness ==
  \E c \in Callers : callers[c].pc = "idle" /\ callers[c].via = "exhausted"

(***************************************************************************)
(* Claims on the query screen                                              *)
(***************************************************************************)

\* C6: the transport's queue of pending receive requests never holds more
\* than one entry: no statement is started on the connection while an earlier
\* one still awaits its response.
C6_OneOutstandingReceive == Len(messageQueue) <= 1

\* C38: with auto-rollback enabled, a transaction that is marked active is
\* marked finalized at some later time (or the screen has sent all the
\* statements the model gives it).
C38_TransactionFinalized ==
  (ui.txnActive /\ settings.autoRollbackEnabled)
    ~> (~ui.txnActive \/ ~CanSend)

(***************************************************************************)
(* Claims on the drivers                                                   *)
(***************************************************************************)

\* C2: when the MySQL server asks for full authentication (0x01 0x04) on a
\* connection that is not TLS, whatever form config.ssl has, connect() has
\* failed with the "requires SSL" error and no password was written.
C2_NoPasswordWithoutTls ==
  (drv.kind = "mysql" /\ drv.fullAuthAsked /\ ~tlsSocket)
    => /\ drv.passwordOnWire = "none"
       /\ drv.last.call = "connect"
       /\ drv.last.outcome = "throw"
       /\ drv.last.msg = "caching_sha2_password requires SSL for full authentication"

\* C7: when a call ends with a protocol error, the transport socket is closed
\* by the time the call reports it.
C7_ProtocolErrorClosesSocket ==
  (drv.last.outcome = "throw" /\ drv.last.cause = "protocol") => ~drv.last.sockOpen

\* C8: when connect() or query() fails with a server error response, a
\* protocol error, an authentication failure or a send failure, the driver's
\* ConnectionState is then error, with a message.
C8_FailureLeavesErrorState ==
  (drv.last.outcome = "throw" /\ drv.last.cause \in {"server", "protocol", "auth", "send"})
    => (drv.last.state = "error" /\ drv.last.error # "")

(***************************************************************************)
(* Claims on frame reassembly                                              *)
(***************************************************************************)

\* Where frame k of the stream ends.
RECURSIVE EndOf(_)
EndOf(k) ==
  IF k = 0 THEN 0
  ELSE EndOf(k - 1) + Len(Encode(frm.kind, k, frm.sent[k].payload))

\* The frames that have been delivered whole.
Whole == {k \in 1..Len(frm.sent) : EndOf(k) <= frm.delivered}

\* C10: however the stream is cut into chunks, the frames a driver has parsed
\* are exactly the frames delivered whole so far, each equal to the frame as
\* sent (so the same as when it arrives in one chunk); of a frame that is
\* still incomplete nothing is produced.
C10_ReassemblyIgnoresChunking ==
  frm.parsed = SubSeq(frm.sent, 1, Cardinality(Whole))

\* Every chunk was one byte and all frames of a stream of several are parsed.
C10_Witness ==
  /\ Len(frm.sent) > 1
  /\ frm.delivered = Len(frm.stream)
  /\ frm.bytewise
  /\ frm.parsed = frm.sent
  /\ \E k \in 1..Len(frm.sent) : frm.sent[k].payload # <<>>

\* C13: the chunks that receive() calls have returned since the transport
\* was last disconnected, put together in the order in which they were
\* returned, are a prefix of the bytes the data events have delivered since
\* then: none dropped, none twice, none out of order.
C13_ReceivedIsPrefixOfDelivered ==
  /\ rx.got = [j \in 1..Len(rx.got) |-> rx.start + j]
  /\ rx.start + Len(rx.got) <= streamPos

\* Two receive() calls have each returned one byte.
C13_Witness ==
  /\ Len(reqs) >= 2
  /\ \A i \in 1..2 : reqs[i].st = "resolved" /\ Len(reqs[i].data) = 1
  /\ Len(rx.got) = 2

(***************************************************************************)
(* Claims on the pool's shutdown                                           *)
(***************************************************************************)

\* C11: when destroyAll() completes, disconnect() has been called on every
\* driver instance the pool created and had not dropped before, and the pool
\* holds no entries.
C11_DestroyAllDisconnectsEverything ==
  shutdown.phase = "done" =>
     /\ shutdown.left = {}
     /\ Pooled(pools, arrays) = {}

\* C12: connect() takes the state from disconnected to connecting and ends
\* with connected when it succeeds and with error when it fails; the state is
\* connected only if the server has accepted the authentication; the state
\* at the end of disconnect() is disconnected.
C12_Lifecycle ==
  /\ (drv.call = "connect" /\ drv.pc # "idle")
        => drv.state \in {"connecting", "disconnected"}
  /\ (drv.last.call = "connect" /\ drv.last.outcome = "ok") => drv.last.state = "connected"
  /\ (drv.last.call = "connect" /\ drv.last.outcome = "throw") => drv.last.state = "error"
  /\ drv.state = "connected" => drv.serverAuth = "ok"
  /\ drv.afterDisconnect \in {"none", "disconnected"}

(***************************************************************************)
(* Claims on the SCRAM exchanges                                           *)
(***************************************************************************)

\* C14: when Postgres' authenticate() has taken a SASL continue message whose
\* server-first nonce does not start with the client nonce of the session in
\* course, connect() has failed and that pass has sent no client-final.
C14_PostgresNonceChecked ==
  (/\ scram.driver = "postgres"
   /\ scram.last.msg.type = "continue"
   /\ scram.last.nonce # <<>>
   /\ ~StartsWith(scram.last.msg.first.r, scram.last.nonce))
  => (scram.stage = "error" /\ scram.last.sent # "clientFinal")

\* A server-first that is complete but bears another nonce has been refused.
C14_Witness ==
  /\ scram.driver = "postgres"
  /\ scram.last.msg.type = "continue"
  /\ scram.last.nonce # <<>>
  /\ scram.last.msg.first.attrs = "ok"
  /\ scram.last.msg.first.r # <<>>
  /\ ~StartsWith(scram.last.msg.first.r, scram.last.nonce)
  /\ scram.error = "Invalid SCRAM nonce"

\* C15: a MongoDB connect() whose saslStart reply bore a nonce that does not
\* begin with the client nonce sent in saslStart does not end connected.
C15_MongoNonceChecked ==
  (/\ scram.driver = "mongodb"
   /\ scram.first.r # <<>>
   /\ ~StartsWith(scram.first.r, scram.nonce))
  => scram.stage # "connected"

\* C16: when Postgres has taken a SASL final message, or MongoDB the reply
\* to its saslContinue, connect() has failed unless the message bore a v
\* equal to the server signature computed with the client-final.
C16_ServerSignatureChecked ==
  /\ (/\ scram.driver = "postgres"
      /\ scram.last.msg.type \in {"final", "finalNoData", "finalError",
                                   "finalNoV"}
      /\ ~(scram.last.msg.type = "final"
             /\ scram.last.msg.v = scram.last.expected))
     => scram.stage = "error"
  /\ (/\ scram.driver = "mongodb"
      /\ scram.last.stage = "saslContinue"
      /\ ~(scram.last.msg.type = "ok"
             /\ scram.last.msg.v = scram.last.expected))
     => scram.stage = "error"

\* A SASL final whose v is the signature of another auth message has been
\* refused after the client-final was sent.
C16_Witness ==
  /\ scram.driver = "postgres"
  /\ scram.last.msg.type = "final"
  /\ scram.last.expected # NoSig
  /\ scram.last.msg.v # scram.last.expected
  /\ scram.error = "SCRAM server signature mismatch"

\* C32: a Postgres connect() in which a SCRAM session was started ends
\* connected only when a SASL final of that session has been verified.
C32_SaslFinalBeforeReady ==
  (scram.driver = "postgres" /\ scram.stage = "connected" /\ scram.nonce # <<>>)
  => scram.verified

(***************************************************************************)
(* Claims on query()                                                       *)
(***************************************************************************)

C18_ResultSetRows ==
  rset.out = "returned"
  => /\ rset.rowCount = Len(rset.server.rows)
     /\ rset.rows = rset.server.rows

(***************************************************************************)
(* Claims on the MySQL packets                                             *)
(***************************************************************************)

\* C19: the packet the MySQL driver sent last carries sequence id 0 when it
\* is a COM_QUERY or a COM_QUIT, and otherwise (handshake response,
\* auth-switch response, password) one more than the sequence id of the
\* packet exchanged before it.
C19_SequenceIds ==
  /\ drv.lastSent.kind \in {"query", "quit"} => drv.lastSent.seq = 0
  /\ drv.lastSent.kind \in {"handshakeResponse", "authSwitchResponse", "password"}
     => drv.lastSent.seq = drv.lastSent.prev + 1

\* The password has been sent after an auth-switch response and the
\* server's request for full authentication.
C19_Witness ==
  /\ drv.lastSent.kind = "password"
  /\ drv.lastSent.prev = MaxSeq
  /\ drv.lastSent.seq = MaxSeq + 1

\* C20: after the server's fast-auth success (0x01 0x03) authenticate()
\* sends no packet, so no password either, and connect() does not fail on
\* the packet that follows unless it is an ERR packet.
C20_FastAuthSendsNothing ==
  drv.fastAuth # "none"
  => /\ drv.fastAuth = "seen"
     /\ drv.passwordOnWire = "none"
     /\ drv.last.call = "connect" => drv.last.cause \in {"", "auth", "close"}

\* connect() has returned after a fast-auth success.
C20_Witness ==
  /\ drv.fastAuth = "seen"
  /\ drv.last.call = "connect"
  /\ drv.last.outcome = "ok"
  /\ drv.state = "connected"

(***************************************************************************)
(* Claims on the BSON codec                                                *)
(***************************************************************************)

\* C21: decoding the encoding of a document gives the document back.
C21_RoundTrip ==
  bson.phase = "decoded" => bson.out = JsObject(bson.doc)

\* C22: the keys of the decoded document that the caller put in come in the
\* order in which the caller put them in.
C22_KeysInInsertionOrder ==
  (bson.phase = "decoded" /\ bson.out.t = "object")
  => LET got == bson.out.v
         Place(key) == CHOOSE i \in 1..Len(bson.keys) : bson.keys[i] = key
     IN \A i, j \in 1..Len(got) :
          (i < j /\ HasOwn(bson.doc, got[i][1]) /\ HasOwn(bson.doc, got[j][1]))
          => Place(got[i][1]) < Place(got[j][1])

(***************************************************************************)
(* Claims on the length-encoded integers                                   *)
(***************************************************************************)

\* C23: each of the two decoders gives back the integer the server encoded
\* and reports 1, 3, 4 or 9 bytes read, by the first byte of the encoding.
C23_LengthEncodedIntegers ==
  \A i \in 1..Len(lenenc.got) :
    /\ lenenc.got[i].value = lenenc.ns[i]
    /\ lenenc.got[i].bytesRead =
          (CASE lenenc.got[i].firstByte < 251 -> 1
             [] lenenc.got[i].firstByte = 252 -> 3
             [] lenenc.got[i].firstByte = 253 -> 4
             [] lenenc.got[i].firstByte = 254 -> 9
             [] OTHER -> 0)

\* Each decoder has read 16777216 in its nine-byte form, after another integer.
C23_Witness ==
  /\ Len(lenenc.got) = 2
  /\ lenenc.got[2].value = 16777216
  /\ lenenc.got[2].bytesRead = 9
  /\ lenenc.got[1].decoder # lenenc.got[2].decoder
  /\ lenenc.got[1].value = 65536

(***************************************************************************)
(* Claims on the snippet store                                             *)
(***************************************************************************)

\* C24: the mutex resolves the promises of acquire() in the order in which
\* acquire() was called.
C24_MutexIsFifo ==
  store.grants = SubSeq(store.calls, 1, Len(store.grants))

\* An acquire() made after a release() had woken a waiter, and before that
\* waiter went on, has got the lock in its turn, as the third of three.
C24_Witness ==
  /\ Len(store.grants) = 3
  /\ \E o \in StoreOps :
        /\ store.ops[o].late
        /\ store.grants[3] = o
        /\ store.ops[o].via = "release"

\* C25: no operation reads or writes the list between the read and the write
\* of another, and when the calls were all saveSnippet, every one that
\* succeeded has its snippet in the stored list.
C25_NoLostUpdate ==
  /\ Cardinality({o \in StoreOps : store.ops[o].pc \in {"reading", "writing"}}) <= 1
  /\ (\A o \in StoreOps : store.ops[o].kind \in {"", "saveSnippet"})
       => \A o \in StoreOps :
            store.ops[o].result = "ok" => \E i \in 1..Len(store.data) : store.data[i] = o

\* C39: a function that has ended has released its mutex once, one that has
\* not ended has not released it, and a call that waits for the mutex gets it.
C39_ReleasedOnceAndGranted ==
  /\ [](\A o \in StoreOps :
          store.ops[o].releases = IF store.ops[o].pc = "done" THEN 1 ELSE 0)
  /\ \A o \in StoreOps :
       (store.ops[o].pc = "queued") ~> (store.ops[o].pc = "granted")

\* A call has waited behind an addToQueryHistory that left its try block by
\* the return of the duplicate branch, and behind a call whose storage call
\* threw, and has got the mutex and ended.
C39_Witness ==
  \E a, b, c \in StoreOps :
    /\ store.ops[a].path = "duplicate" /\ store.ops[a].pc = "done"
    /\ store.ops[b].result \in {"failed", "logged"}
    /\ store.ops[c].via = "release" /\ store.ops[c].pc = "done"
    /\ store.ops[c].releases = 1

(***************************************************************************)
(* Claims on a driver instance over several calls                          *)
(***************************************************************************)

\* C31: the messages a query() that sent its Query message has taken off the
\* buffer, for its result or for its error, are messages the server sent in
\* reply to that Query.
C31_OwnFramesOnly ==
  (sess.last.call = "query" /\ sess.last.sent)
  => \A i \in 1..Len(sess.last.taken) : sess.last.taken[i].q = sess.last.q

\* C40: a connect() made after a disconnect(), and the calls after it, take
\* off the buffer only messages that came over the socket that connect()
\* opened.
C40_OnlyNewSocketBytes ==
  /\ \A i \in 1..Len(sess.taken) : sess.taken[i].sock = sess.sock
  /\ \A i \in 1..Len(sess.last.taken) : sess.last.taken[i].sock = sess.last.sock

(***************************************************************************)
(* Claims on the connection store                                          *)
(***************************************************************************)

\* C36: a driver instance the store has made, and that is connecting or
\* connected, is the instance recorded in activeConnections under its id.
C36_LiveInstancesRecorded ==
  \A k \in 1..Len(cstore.instances) :
    cstore.instances[k].state \in {"connecting", "connected"}
    => cstore.activeConnections[cstore.instances[k].id].instance = k

(***************************************************************************)
(* Claims on what connect() and query() accept                             *)
(***************************************************************************)

\* C33: a MySQL connect() has returned only when the server's last packet
\* of the authentication was an OK packet.
C33_ConnectedOnlyAfterOk ==
  (drv.kind = "mysql" /\ drv.last.call = "connect" /\ drv.last.outcome = "ok")
  => drv.serverAuth = "ok"

\* C37: a query() begun while the driver's ConnectionState is not connected
\* ends at once with "Not connected" and writes nothing.
C37_QueryOnlyWhenConnected ==
  [][(drv'.queries = drv.queries + 1 /\ drv.state # "connected")
       => (/\ drv'.pc = "idle"
           /\ drv'.last.call = "query"
           /\ drv'.last.cause = "notConnected"
           /\ drv'.lastSent = drv.lastSent)]_vars

====
